---- MODULE Spec2Model ----
(***************************************************************************)
(* Model of the PNCP extraction-filter-persist pipeline                    *)
(* (src/extractor.py, src/filter_manager.py).                              *)
(*                                                                         *)
(* Dates are kept as the program keeps them, as "YYYY-MM-DD" strings,      *)
(* written here as <<year, month, day>>; strptime/strftime convert between *)
(* such a string and a day ordinal (days since 2025-01-01), on which       *)
(* timedelta arithmetic and .date() comparisons are done.                  *)
(***************************************************************************)
EXTENDS Integers, Sequences, FiniteSets, TLC

\* Python's None where a date string is expected
NoDate == <<>>

(***************************************************************************)
(* Bounds of the model.                                                    *)
(***************************************************************************)
\* number of calendar days after FirstDay the clock and the inputs range over
MaxSpan == 5
\* number of records one FilterManager analyses
MaxRecords == 3
\* largest totalPaginas the source reports for one (date, modalidade)
MaxPages == 2
\* number of days the clock advances over a sequence of runs
MaxTicks == 1
\* number of days on which the scheduler starts the daily run
DailyDays == 2
\* number of query_llm calls made on one LLMFilter
MaxQueries == 3
\* number of time units that pass between the calls on one LLMFilter
MaxTime == 3
\* number of records followed from enrich_record_with_domain_data to the writer
MaxEmitted == 2
\* number of days of the month that get a daily partition
MonthDays == 2
\* number of save_to_parquet and consolidate_old_files calls in a row
MaxStoreOps == 3
\* length of ExtractorConfig.modalidades_contratacao
NumModalidades == 2
\* number of lines of an answer of the LLM
MaxLines == 2

(***************************************************************************)
(* ExtractorConfig                                                         *)
(***************************************************************************)
max_retries == 5
\* retry_delay = 2.0 s and delay_between_requests = 0.5 s, in milliseconds
retry_delay == 2000
delay_between_requests == 500
max_workers == 3
filtro_ativo == TRUE

(***************************************************************************)
(* State                                                                   *)
(***************************************************************************)
VARIABLES
    plan,       \* one call of get_date_ranges_for_extraction: inputs and result
    fm,         \* the FilterManager: ativo, llm_ativo, grupos_termos, stats
    filter_ret, \* what the last should_include_record call returned
    llm_calls,  \* number of calls made to llm_filter.should_include_record
    api,        \* what the source holds for one (date, modalidade)
    req,        \* the make_request call of each request: 0 counts the pages,
                \* p >= 1 fetches page p
    hv,         \* the extract_modalidade_parallel call: pc, total_pages,
                \* the futures not yet consumed, all_data
    clock,      \* datetime.now().date(), as a day ordinal
    persisted,  \* state.json as stored
    partitions, \* the dates that have a daily Parquet partition
    run,        \* the run_extraction call in progress, if any
    crash,      \* the last process stop between a partition write and save_state
    attempted,  \* the dates for which save_to_parquet has tried to write a
                \* partition
    summary,    \* the last run_extraction call that returned: whether it
                \* had dates to process and logged the filter statistics
    oracle,     \* the LLMFilter instance: config, cache, request_timestamps, stats
    time_now,   \* time.time() and datetime.now() of the LLMFilter, in time units
    oracle_ret, \* the LLMResponse the last query_llm call returned
    hist,       \* what the OpenAI endpoint saw and did: the times requests
                \* were sent, the last outcome, the calls made per cache key
    nrm,        \* the last normalize_record_schema call: its argument, its
                \* result, and the result of normalizing that result
    emitted,    \* the records enrich_record_with_domain_data has returned
    files,      \* the Parquet files of one month: the daily partitions by
                \* day, and the consolidated file
    store_op,   \* the last save_to_parquet or consolidate_old_files call:
                \* its arguments, what the storage did, the files before it
    parse,      \* the _parse_llm_response call: the answer text, and the
                \* response_data returned
    pool        \* extract_period_data: the worker pool of the category being
                \* fetched

planVars == <<plan>>
filterVars == <<fm, filter_ret, llm_calls>>
harvestVars == <<api, req, hv>>
runVars == <<clock, persisted, partitions, run, crash, summary, attempted>>
oracleVars == <<oracle, time_now, oracle_ret, hist>>
normVars == <<nrm, emitted>>
storeVars == <<files, store_op>>
parseVars == <<parse>>
poolVars == <<pool>>
vars == <<plan, fm, filter_ret, llm_calls, api, req, hv,
          clock, persisted, partitions, run, crash, summary, attempted,
          oracle, time_now, oracle_ret, hist, nrm, emitted,
          files, store_op,
          parse,
          pool>>

(***************************************************************************)
(* Calendar: datetime.strptime / strftime / timedelta.                     *)
(***************************************************************************)
IsLeap(y) == (y % 4 = 0 /\ y % 100 # 0) \/ (y % 400 = 0)

DaysInMonth(y, m) ==
    IF m = 2 THEN (IF IsLeap(y) THEN 29 ELSE 28)
    ELSE IF m \in {4, 6, 9, 11} THEN 30 ELSE 31

RECURSIVE DaysBeforeMonth(_, _)
DaysBeforeMonth(y, m) ==
    IF m = 1 THEN 0 ELSE DaysBeforeMonth(y, m - 1) + DaysInMonth(y, m - 1)

RECURSIVE DaysBeforeYear(_)
DaysBeforeYear(y) ==
    IF y <= 2025 THEN 0
    ELSE DaysBeforeYear(y - 1) + (IF IsLeap(y - 1) THEN 366 ELSE 365)

\* datetime.strptime(s, "%Y-%m-%d") as a day ordinal
strptime(s) == DaysBeforeYear(s[1]) + DaysBeforeMonth(s[1], s[2]) + (s[3] - 1)

RECURSIVE WalkCalendar(_, _, _)
WalkCalendar(n, y, m) ==
    IF n < DaysInMonth(y, m) THEN <<y, m, n + 1>>
    ELSE IF m = 12 THEN WalkCalendar(n - DaysInMonth(y, m), y + 1, 1)
    ELSE WalkCalendar(n - DaysInMonth(y, m), y, m + 1)

\* d.strftime("%Y-%m-%d") of the day with ordinal n
strftime(n) == WalkCalendar(n, 2025, 1)

\* ExtractorConfig.historical_backfill_start = "2025-08-01"
historical_backfill_start == <<2025, 8, 1>>

\* The window of days the model ranges over: it starts two days before the
\* backfill start, so that it spans a month boundary.
FirstDay == strptime(historical_backfill_start) - 2
LastDay  == FirstDay + MaxSpan
Days     == FirstDay .. LastDay
DateStrs == {strftime(n) : n \in Days}

(***************************************************************************)
(* get_date_ranges_for_extraction                                          *)
(***************************************************************************)
\* the while loop "current_date <= today: append; current_date += 1 day"
RECURSIVE DatesFromTo(_, _)
DatesFromTo(current, today) ==
    IF current <= today
    THEN <<strftime(current)>> \o DatesFromTo(current + 1, today)
    ELSE <<>>

\* the production branch with a wrong comparison (>= instead of >)
ProductionDatesMutant(last, today) ==
    IF today - 1 >= strptime(last) THEN <<strftime(today - 1)>> ELSE <<>>

\* production_mode: only yesterday, and only if it is after the last date
ProductionDates(last, today) ==
    IF today - 1 > strptime(last) THEN <<strftime(today - 1)>> ELSE <<>>

\* the historical branch starting one day late
HistoricalDatesMutant(today) ==
    DatesFromTo(strptime(historical_backfill_start) + 1, today)

\* historical: every day from historical_backfill_start through today
HistoricalDates(today) ==
    DatesFromTo(strptime(historical_backfill_start), today)

\* the development branch starting at the last date itself
CatchUpDatesMutant(last, today) == DatesFromTo(strptime(last), today)

\* the development branch starting two days after the last date
CatchUpDatesSkipMutant(last, today) == DatesFromTo(strptime(last) + 2, today)

\* not production_mode: every day after the last date through today
CatchUpDates(last, today) == DatesFromTo(strptime(last) + 1, today)

\* last is state['last_extraction_date'] (NoDate when absent), now the ordinal
\* of datetime.now().date()
get_date_ranges_for_extraction(last, historical, execution_date, production_mode, now) ==
    IF execution_date # NoDate THEN <<execution_date>>
    ELSE IF historical \/ last = NoDate THEN HistoricalDates(now)
    ELSE IF production_mode THEN ProductionDates(last, now)
    ELSE CatchUpDates(last, now)

(***************************************************************************)
(* Text: a string is a sequence of characters.  "á" is the precomposed     *)
(* letter, "´" the combining acute accent (category Mn) it decomposes to.  *)
(***************************************************************************)
Alphabet == {"a", "b", "A", "B", "á", " "}

\* unicodedata.normalize('NFD', c) of one character
NFD(c) == IF c = "á" THEN <<"a", "´">> ELSE <<c>>

\* unicodedata.category(c) = 'Mn'
IsMn(c) == c = "´"

\* str.lower() of one character
Lower(c) == IF c = "A" THEN "a" ELSE IF c = "B" THEN "b" ELSE c

\* \w of the re module: letters (digits and underscore are not in Alphabet)
IsWordChar(c) == c \in {"a", "b", "A", "B", "á"}

RECURSIVE NormalizeChars(_)
NormalizeChars(t) ==
    IF t = <<>> THEN <<>>
    ELSE SelectSeq([i \in 1..Len(NFD(Head(t))) |-> Lower(NFD(Head(t))[i])],
                   LAMBDA c : ~IsMn(c))
         \o NormalizeChars(Tail(t))

\* FilterManager._normalize_text
normalize_text(texto) == IF texto = <<>> THEN <<>> ELSE NormalizeChars(texto)

\* \b at position k of texto: between texto[k-1] and texto[k]
WordBoundary(texto, k) ==
    LET before == k > 1 /\ IsWordChar(texto[k - 1])
        after  == k <= Len(texto) /\ IsWordChar(texto[k])
    IN  before # after

\* FilterManager._match_exact_word: re.search(r'\b' + escape(termo) + r'\b')
match_exact_word(texto, termo) ==
    IF termo = <<>> \/ texto = <<>> THEN FALSE
    ELSE \E i \in 1..(Len(texto) - Len(termo) + 1) :
            /\ SubSeq(texto, i, i + Len(termo) - 1) = termo
            /\ WordBoundary(texto, i)
            /\ WordBoundary(texto, i + Len(termo))

(***************************************************************************)
(* FilterManager (src/filter_manager.py)                                   *)
(***************************************************************************)
\* a Python dict, as a function on the set of its keys
EmptyDict == [k \in {} |-> 0]
DictGet(d, k, default) == IF k \in DOMAIN d THEN d[k] ELSE default
\* {**a, **b}
DictMerge(a, b) ==
    [k \in DOMAIN a \cup DOMAIN b |-> IF k \in DOMAIN b THEN b[k] ELSE a[k]]
\* d[k] = d.get(k, 0) + 1
DictIncr(d, k) ==
    [x \in DOMAIN d \cup {k} |-> IF x = k THEN DictGet(d, k, 0) + 1 ELSE d[x]]

\* text[:n] + '...' if len(text) > n else text
Truncate(text, n) ==
    IF Len(text) > n THEN SubSeq(text, 1, n) \o <<".", ".", ".">> ELSE text

\* sorted(items, key=len(name), reverse=True): stable, longest name first
RECURSIVE InsertByLen(_, _)
InsertByLen(sorted, g) ==
    IF sorted = <<>> THEN <<g>>
    ELSE IF Len(Head(sorted).grupo) >= Len(g.grupo)
         THEN <<Head(sorted)>> \o InsertByLen(Tail(sorted), g)
         ELSE <<g>> \o sorted

\* the groups left in file order
SortGroupsMutant(items) == items

RECURSIVE SortGroups(_)
SortGroups(items) ==
    IF items = <<>> THEN <<>>
    ELSE InsertByLen(SortGroups(SubSeq(items, 1, Len(items) - 1)),
                     items[Len(items)])

\* _update_keyword_stats
update_keyword_stats(stats, grupo, termo) ==
    [stats EXCEPT !.matches_por_grupo = DictIncr(@, grupo),
                  !.matches_por_termo = DictIncr(@, termo)]

\* the inner "for termo in termos" loop: the first matching term, or 0
RECURSIVE FirstTerm(_, _, _)
FirstTerm(objetivo_normalizado, termos, i) ==
    IF i > Len(termos) THEN 0
    ELSE IF /\ normalize_text(termos[i]) # <<>>
            /\ match_exact_word(objetivo_normalizado, normalize_text(termos[i]))
         THEN i
         ELSE FirstTerm(objetivo_normalizado, termos, i + 1)

\* the "for grupo, termos in grupos_ordenados" loop from group number i on
RECURSIVE KeywordLoop(_, _, _, _)
KeywordLoop(objetivo_compra, grupos, i, stats) ==
    IF i > Len(grupos)
    THEN [aprovado |-> FALSE,
          motivo   |-> [m |-> "Nenhum termo correspondente encontrado"],
          detalhes |-> [objetivo_compra |-> Truncate(objetivo_compra, 100),
                        etapa |-> 1],
          stats    |-> stats]
    ELSE LET g   == grupos[i]
             obj == normalize_text(objetivo_compra)
             t   == FirstTerm(obj, g.termos, 1)
         IN  IF /\ normalize_text(g.grupo) # <<>>
                /\ match_exact_word(obj, normalize_text(g.grupo))
             THEN [aprovado |-> TRUE,
                   motivo   |-> [m |-> "Match com grupo", grupo |-> g.grupo],
                   detalhes |-> [grupo_matched |-> g.grupo,
                                 termo_matched |-> g.grupo,
                                 criterio |-> "Nome do grupo (palavra exata)",
                                 objetivo_compra |-> Truncate(objetivo_compra, 100),
                                 etapa |-> 1],
                   stats    |-> update_keyword_stats(stats, g.grupo, g.grupo)]
             ELSE IF t # 0
             THEN [aprovado |-> TRUE,
                   motivo   |-> [m |-> "Match com termo", termo |-> g.termos[t],
                                 grupo |-> g.grupo],
                   detalhes |-> [grupo_matched |-> g.grupo,
                                 termo_matched |-> g.termos[t],
                                 criterio |-> "Termo do grupo (palavra exata)",
                                 objetivo_compra |-> Truncate(objetivo_compra, 100),
                                 etapa |-> 1],
                   stats    |-> update_keyword_stats(stats, g.grupo, g.termos[t])]
             ELSE KeywordLoop(objetivo_compra, grupos, i + 1, stats)

\* FilterManager._apply_keyword_filter
apply_keyword_filter(f, objetivo_compra) ==
    KeywordLoop(objetivo_compra, SortGroups(f.grupos_termos), 1, f.stats)

\* an increment that is lost
BumpMutant(stats, key) == stats

\* self.stats[key] += 1
Bump(stats, key) == [stats EXCEPT ![key] = @ + 1]

\* What one call of should_include_record leaves behind: the returned
\* (incluir, motivo, detalhes), the statistics, and whether
\* llm_filter.should_include_record was called.
FilterOut(incluir, motivo, detalhes, stats, llm_called) ==
    [incluir |-> incluir, motivo |-> motivo, detalhes |-> detalhes,
     stats |-> stats, llm_called |-> llm_called]

\* Stage 1 rejected, but the record is handed to Stage 2 all the same
Stage1RejectedMutant(stats, e1, llm) ==
    FilterOut(llm.incluir, [m |-> "Etapa 1 (Palavras-chave)", etapa1 |-> e1.motivo],
              e1.detalhes,
              Bump(Bump(Bump(stats, "filtrados_rejeitados"),
                        "etapa1_rejeitados"), "llm_economizados"),
              TRUE)

\* should_include_record, "if not etapa1_aprovado": reject without the LLM
Stage1Rejected(stats, e1, llm) ==
    FilterOut(FALSE, [m |-> "Etapa 1 (Palavras-chave)", etapa1 |-> e1.motivo],
              e1.detalhes,
              Bump(Bump(Bump(stats, "filtrados_rejeitados"),
                        "etapa1_rejeitados"), "llm_economizados"),
              FALSE)

\* an exception of Stage 2 turned into a rejection of the record
Stage1ApprovedMutant(f, stats, e1, llm) ==
    LET s1 == Bump(stats, "etapa1_aprovados")
    IN  FilterOut(f.llm_ativo /\ ~llm.raises /\ llm.incluir,
            [m |-> "Hibrido", etapa2_aprovado |-> FALSE, etapa2 |-> llm.motivo],
            DictMerge(e1.detalhes, [filtro_hibrido |-> TRUE]),
            Bump(s1, "filtrados_rejeitados"),
            f.llm_ativo)

\* a record whose Stage 2 call raised is left out of the final counters
Stage1ApprovedUncounted(f, stats, e1, llm) ==
    IF f.llm_ativo /\ llm.raises
    THEN FilterOut(TRUE,
             [m |-> "Apenas Etapa 1 (Palavras-chave)", etapa1 |-> e1.motivo],
             DictMerge(e1.detalhes, [filtro_hibrido |-> FALSE,
                                     llm_disponivel |-> f.llm_ativo]),
             Bump(stats, "etapa1_aprovados"),
             f.llm_ativo)
    ELSE Stage1ApprovedMutant(f, stats, e1, [llm EXCEPT !.raises = FALSE])

\* should_include_record after "Aprovado na Etapa 1".  llm is what
\* llm_filter.should_include_record does when called: it raises, or returns
\* (incluir, motivo, detalhes).
Stage1Approved(f, stats, e1, llm) ==
    LET s1 == Bump(stats, "etapa1_aprovados")
    IN  IF f.llm_ativo /\ ~llm.raises
        THEN FilterOut(llm.incluir,
                 [m |-> "Hibrido", etapa2_aprovado |-> llm.incluir,
                  etapa2 |-> llm.motivo],
                 DictMerge(DictMerge(e1.detalhes, llm.detalhes),
                           [filtro_etapa1_motivo |-> e1.motivo,
                            filtro_etapa2_motivo |-> llm.motivo,
                            filtro_hibrido |-> TRUE]),
                 IF llm.incluir
                 THEN Bump(Bump(s1, "filtrados_aprovados"), "etapa2_aprovados")
                 ELSE Bump(Bump(s1, "filtrados_rejeitados"), "etapa2_rejeitados"),
                 TRUE)
        ELSE FilterOut(TRUE,
                 [m |-> "Apenas Etapa 1 (Palavras-chave)", etapa1 |-> e1.motivo],
                 DictMerge(e1.detalhes, [filtro_hibrido |-> FALSE,
                                         llm_disponivel |-> f.llm_ativo]),
                 Bump(s1, "filtrados_aprovados"),
                 f.llm_ativo)

\* should_include_record without the test for an empty objetoCompra
should_include_recordMutant(f, record, llm) ==
    IF ~f.ativo
    THEN FilterOut(TRUE, [m |-> "Filtro desativado"], EmptyDict, f.stats, FALSE)
    ELSE LET s0 == Bump(f.stats, "total_analisados")
             e1 == apply_keyword_filter([f EXCEPT !.stats = s0],
                                        DictGet(record, "objetoCompra", <<>>))
         IN  IF ~e1.aprovado
             THEN Stage1Rejected(e1.stats, e1, llm)
             ELSE Stage1Approved(f, e1.stats, e1, llm)

\* FilterManager.should_include_record(record)
should_include_record(f, record, llm) ==
    IF ~f.ativo
    THEN FilterOut(TRUE, [m |-> "Filtro desativado"], EmptyDict, f.stats, FALSE)
    ELSE LET s0 == Bump(f.stats, "total_analisados")
             objetivo_compra == DictGet(record, "objetoCompra", <<>>)
         IN  IF objetivo_compra = <<>>
             THEN FilterOut(FALSE, [m |-> "objetoCompra vazio"], EmptyDict,
                      Bump(Bump(s0, "filtrados_rejeitados"), "etapa1_rejeitados"),
                      FALSE)
             ELSE LET e1 == apply_keyword_filter([f EXCEPT !.stats = s0],
                                                 objetivo_compra)
                  IN  IF ~e1.aprovado
                      THEN Stage1Rejected(e1.stats, e1, llm)
                      ELSE Stage1Approved(f, e1.stats, e1, llm)

\* FilterManager.__init__: self.stats
InitialStats ==
    [total_analisados |-> 0, etapa1_aprovados |-> 0, etapa1_rejeitados |-> 0,
     etapa2_aprovados |-> 0, etapa2_rejeitados |-> 0,
     filtrados_aprovados |-> 0, filtrados_rejeitados |-> 0,
     matches_por_grupo |-> EmptyDict, matches_por_termo |-> EmptyDict,
     llm_economizados |-> 0]

(***************************************************************************)
(* SpecPlan: get_date_ranges_for_extraction applied to every input of the  *)
(* window.                                                                 *)
(***************************************************************************)
PlanIdle ==
    plan = [last |-> NoDate, historical |-> FALSE, execution_date |-> NoDate,
            production_mode |-> TRUE, now |-> FirstDay, called |-> TRUE,
            dates |-> <<>>]

PlanInit ==
    \E last \in DateStrs \cup {NoDate}, historical \in BOOLEAN,
       execution_date \in DateStrs \cup {NoDate},
       production_mode \in BOOLEAN, now \in Days :
        plan = [last |-> last, historical |-> historical,
                execution_date |-> execution_date,
                production_mode |-> production_mode,
                now |-> now, called |-> FALSE, dates |-> <<>>]

PlanDates ==
    /\ ~plan.called
    /\ plan' = [plan EXCEPT !.called = TRUE, !.dates =
                    get_date_ranges_for_extraction(plan.last, plan.historical,
                        plan.execution_date, plan.production_mode, plan.now)]
    /\ UNCHANGED <<filterVars, harvestVars, runVars, oracleVars, normVars, storeVars, parseVars, poolVars>>


Planned == plan.called

PlanIncremental ==
    Planned /\ plan.execution_date = NoDate /\ ~plan.historical /\ plan.last # NoDate

\* C5: in incremental production mode the plan holds at most one date:
\* exactly [yesterday] when yesterday is strictly after lastProcessedDate and
\* nothing otherwise; lastProcessedDate = yesterday gives [], two days ago
\* gives [yesterday].
C5_ProductionAtMostYesterday ==
    (PlanIncremental /\ plan.production_mode) =>
        /\ Len(plan.dates) <= 1
        /\ (strptime(plan.last) < plan.now - 1) => plan.dates = <<strftime(plan.now - 1)>>
        /\ (strptime(plan.last) >= plan.now - 1) => plan.dates = <<>>
        /\ (plan.last = strftime(plan.now - 1)) => plan.dates = <<>>
        /\ (plan.last = strftime(plan.now - 2)) => plan.dates = <<strftime(plan.now - 1)>>

C5_Witness ==
    /\ PlanIncremental /\ plan.production_mode
    /\ plan.last = strftime(plan.now - 2)
    /\ plan.dates = <<strftime(plan.now - 1)>>

\* C6: in historical mode, or without a prior lastProcessedDate, the plan
\* is every date from the configured start through today inclusive, in
\* ascending order without gap or duplicate.
C6_HistoricalFullRange ==
    (Planned /\ plan.execution_date = NoDate /\ (plan.historical \/ plan.last = NoDate)) =>
        /\ Len(plan.dates) =
              (IF plan.now >= strptime(historical_backfill_start)
               THEN plan.now - strptime(historical_backfill_start) + 1 ELSE 0)
        /\ \A i \in 1..Len(plan.dates) :
              strptime(plan.dates[i]) = strptime(historical_backfill_start) + (i - 1)
        /\ \A s \in DateStrs :
              (strptime(historical_backfill_start) <= strptime(s) /\ strptime(s) <= plan.now)
                 => \E i \in 1..Len(plan.dates) : plan.dates[i] = s

C6_Witness ==
    /\ Planned /\ plan.execution_date = NoDate /\ plan.historical
    /\ plan.last # NoDate
    /\ Len(plan.dates) >= 3
    /\ plan.dates[1] = historical_backfill_start

\* C7: in incremental non-production mode the plan is exactly the dates
\* strictly after lastProcessedDate through today inclusive, and is empty
\* when lastProcessedDate is today or later.
C7_CatchUpAfterLast ==
    (PlanIncremental /\ ~plan.production_mode) =>
        /\ Len(plan.dates) =
              (IF plan.now > strptime(plan.last)
               THEN plan.now - strptime(plan.last) ELSE 0)
        /\ \A i \in 1..Len(plan.dates) :
              strptime(plan.dates[i]) = strptime(plan.last) + i
        /\ (strptime(plan.last) >= plan.now) => plan.dates = <<>>

C7_Witness ==
    /\ PlanIncremental /\ ~plan.production_mode
    /\ Len(plan.dates) >= 2
    /\ plan.dates[Len(plan.dates)] = strftime(plan.now)

\* what llm_filter.should_include_record(record, context) can do: raise, or
\* return the LLM's decision
LLMOutcomes(record) ==
    {[raises |-> TRUE, incluir |-> FALSE, motivo |-> [m |-> "raise"],
      detalhes |-> EmptyDict]}
    \cup
    {[raises |-> FALSE, incluir |-> d = "APROVAR",
      motivo |-> [m |-> "LLM", decisao |-> d],
      detalhes |-> [llm_decisao |-> d,
                    objetivo_compra |->
                        Truncate(DictGet(record, "objetoCompra", <<>>), 200)]]
        : d \in {"APROVAR", "REJEITAR"}}

NoRet == [incluir |-> FALSE, motivo |-> [m |-> "no call yet"], detalhes |-> EmptyDict]

NewFilterManager(ativo, llm_ativo, grupos_termos) ==
    [ativo |-> ativo, llm_ativo |-> llm_ativo, grupos_termos |-> grupos_termos,
     stats |-> InitialStats]

(***************************************************************************)
(* normalize_record_schema and enrich_record_with_domain_data              *)
(***************************************************************************)
default_unidade_schema ==
    [codigoIbge |-> "None", codigoUnidade |-> "None", municipioNome |-> "None",
     nomeUnidade |-> "None", ufNome |-> "None", ufSigla |-> "None"]
default_orgao_schema ==
    [cnpj |-> "None", esferaId |-> "None", poderId |-> "None", razaoSocial |-> "None"]
default_amparo_schema ==
    [codigo |-> "None", descricao |-> "None", nome |-> "None"]
default_fonte_schema ==
    [codigo |-> "None", dataInclusao |-> "None", descricao |-> "None", nome |-> "None"]

\* The values a nested field of a record can hold, by Python type: None, a
\* dict (a function on its keys, with strings as leaves and "None" for a None
\* leaf), a list, or a string standing for every other type.
PyNone == [tag |-> "None"]
PyDict(d) == [tag |-> "dict", v |-> d]
PyList(l) == [tag |-> "list", v |-> l]
PyStr(x) == [tag |-> "str", v |-> x]

\* value is None
IsNone(v) == v = PyNone

\* "for field, default_value in default.items(): if field not in d: d[field] = default_value"
FillMissing(d, default) ==
    [k \in DOMAIN d \cup DOMAIN default |-> IF k \in DOMAIN d THEN d[k] ELSE default[k]]

\* The fill loop on a value that is not None raises TypeError unless the
\* value is a dict: "field not in value" holds (or itself raises) and the
\* item assignment fails on a str, a list or a number.
FillRaises(v) == v.tag # "dict"

\* one "Normalizar <field>" block for a nested dict raises
StructRaises(record, field) ==
    /\ field \in DOMAIN record
    /\ ~IsNone(record[field])
    /\ FillRaises(record[field])

\* one "Normalizar <field>" block for a nested dict, when it does not raise
NormalizeStruct(record, field, default) ==
    IF field \in DOMAIN record /\ ~IsNone(record[field])
    THEN PyDict(FillMissing(record[field].v, default))
    ELSE PyDict(default)

\* "for fonte in normalized['fontesOrcamentarias']": the elements the loop
\* visits.  A list gives its elements, a dict its keys, a str its characters.
FontesIterated(v) ==
    IF v.tag = "list" THEN v.v
    ELSE IF v.tag = "dict"
    THEN IF DOMAIN v.v = {} THEN <<>> ELSE << PyStr("key") >>
    ELSE IF v.v = "" THEN <<>> ELSE << PyStr("char") >>

\* the "Normalizar fontesOrcamentarias (array)" block raises
FontesRaises(record) ==
    /\ "fontesOrcamentarias" \in DOMAIN record
    /\ ~IsNone(record["fontesOrcamentarias"])
    /\ \E i \in 1..Len(FontesIterated(record["fontesOrcamentarias"])) :
          LET fonte == FontesIterated(record["fontesOrcamentarias"])[i]
          IN  ~IsNone(fonte) /\ FillRaises(fonte)

\* the array block adding one more default element on every call
NormalizeFontesMutant(record) ==
    IF "fontesOrcamentarias" \in DOMAIN record /\ ~IsNone(record["fontesOrcamentarias"])
    THEN PyList(Append(FontesIterated(record["fontesOrcamentarias"]),
                       PyDict(default_fonte_schema)))
    ELSE PyList(<<>>)

\* the "Normalizar fontesOrcamentarias (array)" block, when it does not raise
NormalizeFontes(record) ==
    IF "fontesOrcamentarias" \in DOMAIN record /\ ~IsNone(record["fontesOrcamentarias"])
    THEN LET fontes == FontesIterated(record["fontesOrcamentarias"])
         IN  PyList([i \in 1..Len(fontes) |->
                 IF IsNone(fontes[i]) THEN PyDict(default_fonte_schema)
                 ELSE PyDict(FillMissing(fontes[i].v, default_fonte_schema))])
    ELSE PyList(<<>>)

\* the nested dict fields of normalize_record_schema, in the order of its blocks
StructFields ==
    <<"unidadeOrgao", "orgaoEntidade", "amparoLegal", "unidadeSubRogada",
      "orgaoSubRogado">>

\* normalize_record_schema raises on the record
normalize_raises(record) ==
    \/ \E i \in 1..Len(StructFields) : StructRaises(record, StructFields[i])
    \/ FontesRaises(record)

\* normalize_record_schema: raises, or returns the normalized copy
normalize_record_schema(record) ==
    IF normalize_raises(record)
    THEN [raises |-> TRUE, normalized |-> EmptyDict]
    ELSE [raises |-> FALSE,
          normalized |-> DictMerge(record,
        [unidadeOrgao |-> NormalizeStruct(record, "unidadeOrgao", default_unidade_schema),
         orgaoEntidade |-> NormalizeStruct(record, "orgaoEntidade", default_orgao_schema),
         amparoLegal |-> NormalizeStruct(record, "amparoLegal", default_amparo_schema),
         unidadeSubRogada |-> NormalizeStruct(record, "unidadeSubRogada", default_unidade_schema),
         orgaoSubRogado |-> NormalizeStruct(record, "orgaoSubRogado", default_orgao_schema),
         fontesOrcamentarias |-> NormalizeFontes(record)])]

\* The list the caller passed in fontesOrcamentarias after the array block:
\* the loop fills the missing fields of each dict element in place, up to
\* the element on which it raises; a None element is replaced in the new
\* list only.
FontesAfter(v) ==
    IF IsNone(v) \/ v.tag # "list" THEN v
    ELSE LET bad == {i \in 1..Len(v.v) : ~IsNone(v.v[i]) /\ FillRaises(v.v[i])}
         IN  PyList([i \in 1..Len(v.v) |->
                 IF (\A b \in bad : i < b) /\ ~IsNone(v.v[i])
                 THEN PyDict(FillMissing(v.v[i].v, default_fonte_schema))
                 ELSE v.v[i]])

\* The record the caller passed to normalize_record_schema, after the call.
\* "normalized = record.copy()" copies the top level only: the nested dicts
\* and the list elements of normalized are the caller's objects, and the
\* fill loops assign into them.  The blocks run in order until one raises.
RecordAfterNormalize(record) ==
    LET defaults == <<default_unidade_schema, default_orgao_schema,
                      default_amparo_schema, default_unidade_schema,
                      default_orgao_schema>>
        raising == {i \in 1..Len(StructFields) : StructRaises(record, StructFields[i])}
        reached(i) == \A b \in raising : i < b
    IN  [k \in DOMAIN record |->
            IF \E i \in 1..Len(StructFields) :
                  /\ StructFields[i] = k
                  /\ reached(i)
                  /\ ~IsNone(record[k])
            THEN LET i == CHOOSE i \in 1..Len(StructFields) : StructFields[i] = k
                 IN  PyDict(FillMissing(record[k].v, defaults[i]))
            ELSE IF k = "fontesOrcamentarias" /\ raising = {}
            THEN FontesAfter(record[k])
            ELSE record[k]]

\* "Enriquecer modalidade": the two names looked up for modalidadeId, added
\* only when the record has the field.  The blocks for situacaoCompraId,
\* modoDisputaId, criterioJulgamentoId, instrumentoConvocatorioId and the
\* orgaoEntidade codes have the same form and are left out.
EnrichModalidade(record) ==
    IF "modalidadeId" \in DOMAIN record
    THEN [modalidade_nome_dominio |-> <<"nome", record["modalidadeId"]>>,
          modalidade_descricao_dominio |-> <<"descricao", record["modalidadeId"]>>]
    ELSE EmptyDict

\* enrich_record_with_domain_data after the filter accepted the record with
\* out = (incluir, motivo, detalhes): raises, or returns the normalized record
EnrichAccepted(record, out) ==
    normalize_record_schema(
        DictMerge(DictMerge(record,
            [filtro_aplicado |-> TRUE,
             filtro_motivo |-> out.motivo,
             filtro_grupo_matched |-> DictGet(out.detalhes, "grupo_matched", <<>>),
             filtro_termo_matched |-> DictGet(out.detalhes, "termo_matched", <<>>),
             filtro_criterio |-> DictGet(out.detalhes, "criterio", "")]),
            EnrichModalidade(record)))

(***************************************************************************)
(* make_request, get_total_pages, extract_page_data,                       *)
(* extract_modalidade_parallel                                             *)
(***************************************************************************)
RECURSIVE Pow2(_)
Pow2(n) == IF n = 0 THEN 1 ELSE 2 * Pow2(n - 1)

\* a backoff that grows linearly instead of doubling
BackoffDelayMutant(attempt) == retry_delay * (attempt + 1)

\* delay = self.config.retry_delay * (2 ** attempt)
BackoffDelay(attempt) == retry_delay * Pow2(attempt)

\* a make_request call: its state, the loop variable attempt, the outcome
\* of every session.get so far and every time.sleep so far
NewRequest(st) == [st |-> st, attempt |-> 0, outcomes |-> <<>>, slept |-> <<>>]

RequestIds == 0..MaxPages
Pages == 1..MaxPages

\* the objetoCompra texts of the records the source serves: one that the
\* keyword stage of InitHarvest's dictionary approves, one that it rejects
HarvestTexts == {<<"a">>, <<"b">>}

\* the response of the source to a successful request for page p
PageResponse(p) ==
    [data |-> IF p \in DOMAIN api.data THEN api.data[p] ELSE <<>>,
     totalPaginas |-> api.totalPaginas,
     totalRegistros |-> api.totalPaginas]

\* extract_page_data(page): what the future of page p resolves to
extract_page_data(p) ==
    IF req[p].st = "returned" /\ "data" \in DOMAIN PageResponse(p)
    THEN PageResponse(p).data
    ELSE <<>>

\* get_total_pages once its request has ended
get_total_pages ==
    IF req[0].st = "returned" /\ "totalPaginas" \in DOMAIN PageResponse(1)
    THEN PageResponse(1).totalPaginas
    ELSE 0

HarvestIdle ==
    /\ api = [totalPaginas |-> 0, data |-> <<>>]
    /\ req = [r \in RequestIds |-> NewRequest("idle")]
    /\ hv = [pc |-> "done", total_pages |-> 0, pending |-> {},
             all_data |-> <<>>, result |-> <<>>]

\* extract_modalidade_parallel is entered: get_total_pages sends request 0
HarvestInit ==
    /\ \E n \in 0..MaxPages : \E text \in HarvestTexts :
          api = [totalPaginas |-> n,
                 data |-> [p \in 1..n |->
                             << [numeroControlePNCP |-> p, objetoCompra |-> text] >>]]
    /\ req = [r \in RequestIds |->
                 IF r = 0 THEN NewRequest("running") ELSE NewRequest("idle")]
    /\ hv = [pc |-> "get_total_pages", total_pages |-> 0, pending |-> {},
             all_data |-> <<>>, result |-> <<>>]

\* session.get and raise_for_status succeed: sleep, return response.json()
AttemptSucceeds(r) ==
    /\ req[r].st = "running"
    /\ req' = [req EXCEPT ![r].st = "returned",
                          ![r].outcomes = Append(@, "ok"),
                          ![r].slept = Append(@, delay_between_requests)]
    /\ UNCHANGED <<api, hv>>

\* RequestException with attempt < max_retries - 1: back off and loop
AttemptFailsRetry(r) ==
    /\ req[r].st = "running"
    /\ req[r].attempt < max_retries - 1
    /\ req' = [req EXCEPT ![r].attempt = @ + 1,
                          ![r].outcomes = Append(@, "err"),
                          ![r].slept = Append(@, BackoffDelay(req[r].attempt))]
    /\ UNCHANGED <<api, hv>>

\* RequestException on the last attempt: raise
AttemptFailsRaise(r) ==
    /\ req[r].st = "running"
    /\ ~(req[r].attempt < max_retries - 1)
    /\ req' = [req EXCEPT ![r].st = "raised",
                          ![r].outcomes = Append(@, "err")]
    /\ UNCHANGED <<api, hv>>

\* get_total_pages returns; zero pages returns [] at once, otherwise one
\* future per page is submitted to the pool
CountDone ==
    /\ hv.pc = "get_total_pages"
    /\ req[0].st \in {"returned", "raised"}
    /\ IF get_total_pages = 0
       THEN /\ hv' = [hv EXCEPT !.pc = "done", !.result = <<>>]
            /\ req' = req
       ELSE /\ hv' = [hv EXCEPT !.pc = "as_completed",
                                !.total_pages = get_total_pages,
                                !.pending = 1..get_total_pages]
            /\ req' = [r \in RequestIds |->
                          IF r \in 1..get_total_pages THEN NewRequest("queued")
                          ELSE req[r]]
    /\ UNCHANGED api

\* a free worker of the pool takes the next queued page
StartPage(p) ==
    /\ hv.pc = "as_completed"
    /\ req[p].st = "queued"
    /\ \A q \in Pages : req[q].st = "queued" => p <= q
    /\ Cardinality({q \in Pages : req[q].st = "running"}) < max_workers
    /\ req' = [req EXCEPT ![p].st = "running"]
    /\ UNCHANGED <<api, hv>>

\* the body of the as_completed loop for one record: filter, enrich, keep
RECURSIVE EnrichPage(_, _, _, _)
EnrichPage(page_data, llm, i, acc) ==
    IF i > Len(page_data) THEN acc
    ELSE LET out == should_include_record([fm EXCEPT !.stats = acc.stats],
                                          page_data[i], llm[i])
             calls == acc.calls + (IF out.llm_called THEN 1 ELSE 0)
         IN  IF out.incluir /\ EnrichAccepted(page_data[i], out).raises
             THEN \* "except Exception": the page is logged and dropped
                  [stats |-> out.stats, calls |-> calls, enriched_data |-> <<>>]
             ELSE EnrichPage(page_data, llm, i + 1,
                 [stats |-> out.stats,
                  calls |-> calls,
                  enriched_data |->
                      IF out.incluir
                      THEN Append(acc.enriched_data,
                                  EnrichAccepted(page_data[i], out).normalized)
                      ELSE acc.enriched_data])

\* the as_completed loop takes the finished future of page p
ConsumePage(p) ==
    /\ hv.pc = "as_completed"
    /\ p \in hv.pending
    /\ req[p].st \in {"returned", "raised"}
    /\ LET page_data == extract_page_data(p)
       IN  \E llm \in [1..Len(page_data) -> UNION {LLMOutcomes(page_data[i]) :
                                                    i \in 1..Len(page_data)}] :
              /\ \A i \in 1..Len(page_data) : llm[i] \in LLMOutcomes(page_data[i])
              /\ LET done == EnrichPage(page_data, llm, 1,
                                 [stats |-> fm.stats, calls |-> llm_calls,
                                  enriched_data |-> <<>>])
                 IN  /\ fm' = [fm EXCEPT !.stats = done.stats]
                     /\ UNCHANGED filter_ret
                     /\ llm_calls' = done.calls
                     /\ hv' = [hv EXCEPT !.pending = @ \ {p},
                                         !.all_data = @ \o done.enriched_data]
    /\ UNCHANGED <<api, req>>

\* every future consumed: return all_data
ReturnAllData ==
    /\ hv.pc = "as_completed"
    /\ hv.pending = {}
    /\ hv' = [hv EXCEPT !.pc = "done", !.result = hv.all_data]
    /\ UNCHANGED <<api, req, filterVars>>

HarvestNext ==
    \/ \E r \in RequestIds :
          /\ (AttemptSucceeds(r) \/ AttemptFailsRetry(r) \/ AttemptFailsRaise(r))
          /\ UNCHANGED <<planVars, filterVars, runVars, oracleVars, normVars, storeVars, parseVars, poolVars>>
    \/ CountDone /\ UNCHANGED <<planVars, filterVars, runVars, oracleVars, normVars, storeVars, parseVars, poolVars>>
    \/ \E p \in Pages : StartPage(p) /\ UNCHANGED <<planVars, filterVars, runVars, oracleVars, normVars, storeVars, parseVars, poolVars>>
    \/ \E p \in Pages : ConsumePage(p) /\ UNCHANGED <<planVars, runVars, oracleVars, normVars, storeVars, parseVars, poolVars>>
    \/ ReturnAllData /\ UNCHANGED <<planVars, runVars, oracleVars, normVars, storeVars, parseVars, poolVars>>

(***************************************************************************)
(* Claims about the harvest (SpecHarvest)                                  *)
(***************************************************************************)
\* C8: when the last retry of a page fetch fails, the error reaches the
\* caller of extract_modalidade_parallel: the call never returns a result
\* while a page fetch of the partition has raised.
C8_PageFailureReachesCaller ==
    (hv.pc = "done") => \A p \in Pages : req[p].st # "raised"

NumFailed(q) == Cardinality({i \in 1..Len(q.outcomes) : q.outcomes[i] = "err"})

\* C9: make_request makes at most max_retries attempts; after failed
\* attempt k (from 0) that is not the last it sleeps retry_delay * 2^k; it
\* returns at the first success with no further attempt; after the last
\* failed attempt it raises instead of returning.
C9_RetryWithBackoff ==
    \A r \in RequestIds :
        LET q == req[r]
            n == Len(q.outcomes)
            backoffs == IF NumFailed(q) < max_retries THEN NumFailed(q)
                        ELSE max_retries - 1
        IN  /\ n <= max_retries
            /\ \A i \in 1..(n - 1) : q.outcomes[i] = "err"
            /\ (q.st = "returned") <=> (n >= 1 /\ q.outcomes[n] = "ok")
            /\ (q.st = "raised") <=> (n = max_retries /\ q.outcomes[n] = "err")
            /\ Len(q.slept) >= backoffs
            /\ \A k \in 0..(backoffs - 1) : q.slept[k + 1] = retry_delay * (2 ^ k)
            /\ Len(q.slept) = backoffs + (IF q.st = "returned" THEN 1 ELSE 0)

C9_Witness ==
    /\ req[1].st = "raised"
    /\ req[1].slept = <<2000, 4000, 8000, 16000>>
    /\ req[2].st = "returned"
    /\ req[2].outcomes = <<"err", "err", "err", "err", "ok">>

\* the records of the pages the as_completed loop has taken so far: the
\* records should_include_record has been called on
RECURSIVE RecordsOf(_)
RecordsOf(pages) ==
    IF pages = {} THEN 0
    ELSE LET p == CHOOSE x \in pages : TRUE
         IN  Len(extract_page_data(p)) + RecordsOf(pages \ {p})

ClassifyCalls ==
    IF hv.pc = "get_total_pages" THEN 0
    ELSE RecordsOf((1..hv.total_pages) \ hv.pending)

ReportedEmpty == hv.pc = "done" /\ hv.total_pages = 0

\* C37: a partition is reported empty by the zero-pages test only when the
\* source answered the page-count request with zero pages; a page-count
\* request that failed is never taken for zero pages.
C37_EmptyOnlyOnZeroPagesAnswer ==
    ReportedEmpty => (req[0].st = "returned" /\ api.totalPaginas = 0)

(***************************************************************************)
(* run_extraction, load_state, save_state, extract_period_data,            *)
(* save_to_parquet                                                         *)
(*                                                                         *)
(* state.json is one store: the S3 object when use_s3, the local file      *)
(* otherwise.  processed_dates is kept as the set of its elements (the     *)
(* program only appends to the list and tests membership), daily_data as   *)
(* its length (run_extraction uses its truth value and its len), and the   *)
(* timestamps of the state are left out.                                   *)
(***************************************************************************)
\* load_state: "Estado inicial"
InitialState ==
    [last_extraction_date |-> NoDate, total_records_extracted |-> 0,
     processed_dates |-> {}]

\* load_state on the stored state.json
load_state == IF persisted.exists THEN persisted.state ELSE InitialState

\* the clock of the runs starts on the backfill start day
RunFirstDay == strptime(historical_backfill_start)
RunLastDay  == RunFirstDay + MaxTicks

\* the values of --date: a day before the backfill start, and a later one
ExplicitDates == {strftime(RunFirstDay - 1), strftime(RunFirstDay + 1)}

\* What extract_modalidade_parallel can return for one modalidade: the
\* number of records of all_data (none, or one), and whether a request of
\* the partition raised in make_request (get_total_pages then returns 0 and
\* extract_page_data returns no record for its page).
HarvestResults == [records : 0..1, failed : BOOLEAN]

RECURSIVE SumRecords(_, _)
SumRecords(results, m) ==
    IF m = 0 THEN 0 ELSE SumRecords(results, m - 1) + results[m].records

\* extract_period_data: the modalidades one after the other, all_period_data
\* extended with each result
extract_period_data(results) ==
    [daily_data |-> SumRecords(results, NumModalidades),
     fetch_failed |-> \E m \in 1..NumModalidades : results[m].failed]

RunIdle ==
    [pc |-> "idle", historical |-> FALSE, execution_date |-> NoDate,
     production_mode |-> TRUE, state |-> InitialState, dates_to_extract |-> <<>>,
     i |-> 1, daily_data |-> 0, fetch_failed |-> FALSE]

NoCrash ==
    [happened |-> FALSE, date |-> NoDate, historical |-> FALSE,
     execution_date |-> NoDate, production_mode |-> TRUE]

\* no run_extraction call has returned since the last one began
NoSummary == [returned |-> FALSE, had_dates |-> FALSE, statistics |-> FALSE]

RunInit ==
    /\ summary = NoSummary
    /\ attempted = {}
    /\ clock = RunFirstDay
    /\ persisted = [exists |-> FALSE, state |-> InitialState]
    /\ partitions = {}
    /\ run = RunIdle
    /\ crash = NoCrash

\* the date of the current iteration of "for date_str in dates_to_extract"
date_str == run.dates_to_extract[run.i]

InLoop == run.pc = "loop" /\ run.i <= Len(run.dates_to_extract)

\* the skip test disabled
AlreadyProcessedMutant(d, processed_dates) == FALSE

\* "if date_str in processed_dates"
AlreadyProcessed(d, processed_dates) == d \in processed_dates

\* run_extraction up to the for loop: load the state, plan the dates, return
\* at once when there is none
StartRun ==
    /\ run.pc = "idle"
    /\ \E historical \in BOOLEAN, execution_date \in ExplicitDates \cup {NoDate},
          production_mode \in BOOLEAN :
          LET state == load_state
              dates == get_date_ranges_for_extraction(state.last_extraction_date,
                           historical, execution_date, production_mode, clock)
          IN  /\ run' = IF dates = <<>> THEN RunIdle
                        ELSE [RunIdle EXCEPT !.pc = "loop",
                                             !.historical = historical,
                                             !.execution_date = execution_date,
                                             !.production_mode = production_mode,
                                             !.state = state,
                                             !.dates_to_extract = dates]
              /\ summary' = IF dates = <<>>
                            THEN [returned |-> TRUE, had_dates |-> FALSE,
                                  statistics |-> FALSE]
                            ELSE NoSummary
    /\ crash' = NoCrash
    /\ UNCHANGED <<clock, persisted, partitions, attempted>>

\* "Data ja processada, pulando": continue
SkipDate ==
    /\ InLoop
    /\ AlreadyProcessed(date_str, run.state.processed_dates)
    /\ run' = [run EXCEPT !.i = @ + 1]
    /\ UNCHANGED <<clock, persisted, partitions, crash, summary, attempted>>

\* daily_data = extract_period_data(date_str, date_str)
HarvestDate ==
    /\ InLoop
    /\ ~AlreadyProcessed(date_str, run.state.processed_dates)
    /\ \E results \in [1..NumModalidades -> HarvestResults] :
          run' = [run EXCEPT !.pc = "harvested",
                      !.daily_data = extract_period_data(results).daily_data,
                      !.fetch_failed = extract_period_data(results).fetch_failed]
    /\ UNCHANGED <<clock, persisted, partitions, crash, summary, attempted>>

\* "Atualizar estado" after a written partition, or "Marcar data como
\* processada mesmo sem dados"
UpdatedState(state, d, daily_data) ==
    IF daily_data > 0
    THEN [last_extraction_date |-> d,
          total_records_extracted |-> state.total_records_extracted + daily_data,
          processed_dates |-> state.processed_dates \cup {d}]
    ELSE [state EXCEPT !.processed_dates = @ \cup {d}]

\* save_to_parquet with the state of the date updated before the write is
\* known to have succeeded
WritePartitionMutant ==
    /\ run.pc = "harvested"
    /\ run.daily_data > 0
    /\ \E outcome \in {"ok", "parquet", "metadata"} :
          /\ partitions' = IF outcome = "parquet" THEN partitions
                           ELSE partitions \cup {date_str}
          /\ run' = IF outcome = "ok" THEN [run EXCEPT !.pc = "written"]
                    ELSE [run EXCEPT !.pc = "loop", !.i = @ + 1,
                              !.state = UpdatedState(run.state, date_str, run.daily_data)]
    /\ attempted' = attempted \cup {date_str}
    /\ UNCHANGED <<clock, persisted, crash, summary>>

\* save_to_parquet(daily_data, date_str) and what follows it.  "ok": the
\* partition and the metadata are written.  "parquet": save_parquet returns
\* False, save_to_parquet raises.  "metadata": the partition is written and
\* _save_extraction_metadata raises.  An exception reaches the except of the
\* loop body: continue.
WritePartition ==
    /\ run.pc = "harvested"
    /\ run.daily_data > 0
    /\ \E outcome \in {"ok", "parquet", "metadata"} :
          /\ partitions' = IF outcome = "parquet" THEN partitions
                           ELSE partitions \cup {date_str}
          /\ run' = IF outcome = "ok" THEN [run EXCEPT !.pc = "written"]
                    ELSE [run EXCEPT !.pc = "loop", !.i = @ + 1]
    /\ attempted' = attempted \cup {date_str}
    /\ UNCHANGED <<clock, persisted, crash, summary>>

\* save_state(state): the put succeeds, or raises and is only logged
save_state(state, ok) ==
    IF ok THEN [exists |-> TRUE, state |-> state] ELSE persisted

\* the state update of the date and "Salvar estado a cada data processada"
SaveDate ==
    /\ \/ run.pc = "written"
       \/ run.pc = "harvested" /\ run.daily_data = 0
    /\ LET state == UpdatedState(run.state, date_str, run.daily_data)
       IN  /\ run' = [run EXCEPT !.pc = "loop", !.i = @ + 1, !.state = state]
           /\ \E ok \in BOOLEAN : persisted' = save_state(state, ok)
    /\ UNCHANGED <<clock, partitions, crash, summary, attempted>>

\* after the loop: log the statistics, "Salvar estado final", return
FinishRun ==
    /\ run.pc = "loop"
    /\ run.i > Len(run.dates_to_extract)
    /\ \E ok \in BOOLEAN : persisted' = save_state(run.state, ok)
    /\ run' = RunIdle
    /\ summary' = [returned |-> TRUE, had_dates |-> TRUE, statistics |-> filtro_ativo]
    /\ UNCHANGED <<clock, partitions, crash, attempted>>

\* the process stops at any point of a run; what is in memory is lost
Crash ==
    /\ run.pc # "idle"
    /\ crash' = IF run.pc = "written"
                THEN [happened |-> TRUE, date |-> date_str,
                      historical |-> run.historical,
                      execution_date |-> run.execution_date,
                      production_mode |-> run.production_mode]
                ELSE NoCrash
    /\ run' = RunIdle
    /\ summary' = NoSummary
    /\ UNCHANGED <<clock, persisted, partitions, attempted>>

\* a day passes between two runs
Tick ==
    /\ run.pc = "idle"
    /\ clock < RunLastDay
    /\ clock' = clock + 1
    /\ UNCHANGED <<persisted, partitions, run, crash, summary, attempted>>

\* the scheduled run of the next day: run_extraction() without --date and
\* without --historical, production_mode being the default of the config
DailyRun ==
    /\ run.pc = "idle"
    /\ clock < RunFirstDay + DailyDays
    /\ clock' = clock + 1
    /\ LET state == load_state
           dates == get_date_ranges_for_extraction(state.last_extraction_date,
                        FALSE, NoDate, TRUE, clock + 1)
       IN  /\ run' = IF dates = <<>> THEN RunIdle
                     ELSE [RunIdle EXCEPT !.pc = "loop",
                                          !.state = state,
                                          !.dates_to_extract = dates]
           /\ summary' = IF dates = <<>>
                         THEN [returned |-> TRUE, had_dates |-> FALSE,
                               statistics |-> FALSE]
                         ELSE NoSummary
    /\ crash' = NoCrash
    /\ UNCHANGED <<persisted, partitions, attempted>>

RunNext ==
    \/ StartRun /\ UNCHANGED <<planVars, filterVars, harvestVars, oracleVars, normVars, storeVars, parseVars, poolVars>>
    \/ SkipDate /\ UNCHANGED <<planVars, filterVars, harvestVars, oracleVars, normVars, storeVars, parseVars, poolVars>>
    \/ HarvestDate /\ UNCHANGED <<planVars, filterVars, harvestVars, oracleVars, normVars, storeVars, parseVars, poolVars>>
    \/ WritePartition /\ UNCHANGED <<planVars, filterVars, harvestVars, oracleVars, normVars, storeVars, parseVars, poolVars>>
    \/ SaveDate /\ UNCHANGED <<planVars, filterVars, harvestVars, oracleVars, normVars, storeVars, parseVars, poolVars>>
    \/ FinishRun /\ UNCHANGED <<planVars, filterVars, harvestVars, oracleVars, normVars, storeVars, parseVars, poolVars>>
    \/ Crash /\ UNCHANGED <<planVars, filterVars, harvestVars, oracleVars, normVars, storeVars, parseVars, poolVars>>
    \/ Tick /\ UNCHANGED <<planVars, filterVars, harvestVars, oracleVars, normVars, storeVars, parseVars, poolVars>>

\* one run a day, each in production incremental mode
DailyNext ==
    \/ DailyRun /\ UNCHANGED <<planVars, filterVars, harvestVars, oracleVars, normVars, storeVars, parseVars, poolVars>>
    \/ SkipDate /\ UNCHANGED <<planVars, filterVars, harvestVars, oracleVars, normVars, storeVars, parseVars, poolVars>>
    \/ HarvestDate /\ UNCHANGED <<planVars, filterVars, harvestVars, oracleVars, normVars, storeVars, parseVars, poolVars>>
    \/ WritePartition /\ UNCHANGED <<planVars, filterVars, harvestVars, oracleVars, normVars, storeVars, parseVars, poolVars>>
    \/ SaveDate /\ UNCHANGED <<planVars, filterVars, harvestVars, oracleVars, normVars, storeVars, parseVars, poolVars>>
    \/ FinishRun /\ UNCHANGED <<planVars, filterVars, harvestVars, oracleVars, normVars, storeVars, parseVars, poolVars>>
    \/ Crash /\ UNCHANGED <<planVars, filterVars, harvestVars, oracleVars, normVars, storeVars, parseVars, poolVars>>

(***************************************************************************)
(* Claims on run_extraction                                                *)
(***************************************************************************)
\* a step that stays inside one run_extraction call
SameRun == run.pc # "idle" /\ run'.pc # "idle"

\* the date of the iteration in progress has been harvested
DateInProgress == run.pc \in {"harvested", "written"}

\* C1: if a page fetch or a category fetch of a date fails after its retries,
\* the processing of the date is aborted: no step of the run adds the date to
\* processed_dates, moves last_extraction_date or persists the state for it.
C1_FailedFetchAbortsDate ==
    [][(DateInProgress /\ run.fetch_failed /\ SameRun)
         => /\ run'.state.processed_dates = run.state.processed_dates
            /\ run'.state.last_extraction_date = run.state.last_extraction_date
            /\ persisted' = persisted]_vars

\* the dates the next call of get_date_ranges_for_extraction returns, made in
\* the mode of the stopped run on the reloaded state
PlannedAfterCrash ==
    get_date_ranges_for_extraction(load_state.last_extraction_date,
        crash.historical, crash.execution_date, crash.production_mode, clock)

CrashDateReselected ==
    \E k \in 1..Len(PlannedAfterCrash) : PlannedAfterCrash[k] = crash.date

\* the stopped run planned in the production branch or would do so now
CrashInProduction ==
    /\ crash.execution_date = NoDate
    /\ ~crash.historical
    /\ crash.production_mode

C3_PersistedBeforeNextDate ==
    (run.pc = "loop") => run.state.processed_dates \subseteq load_state.processed_dates

\* C4: a date that is in processed_dates at the start of a run is never
\* harvested or written by that run, in every mode: the set the run tests is
\* the loaded one and only grows, and the date being harvested or written is
\* never in it.
C4_ProcessedDateNeverRedone ==
    /\ [](DateInProgress => date_str \notin run.state.processed_dates)
    /\ [][/\ (run.pc = "idle" /\ run'.pc # "idle")
                => run'.state.processed_dates = load_state.processed_dates
          /\ SameRun => run.state.processed_dates \subseteq run'.state.processed_dates]_vars

\* a historical run reaches a date that an earlier run wrote and recorded
C4_Witness ==
    /\ InLoop
    /\ run.historical
    /\ date_str \in run.state.processed_dates
    /\ date_str \in partitions

\* C25: every run_extraction call that returns has logged the end-of-run
\* filter statistics, whether it processed all its dates, had dates fail, or
\* found no date to process.
C25_EveryRunLogsStatistics ==
    summary.returned => summary.statistics

\* the step is the except branch of the loop body: save_to_parquet raised
WriteRaised ==
    /\ run.pc = "harvested"
    /\ run.daily_data > 0
    /\ run'.pc = "loop"

\* C26: when the processing of a date raises, the in-memory state is left
\* as it was (last_extraction_date, processed_dates and
\* total_records_extracted keep their values, the date is not among the
\* processed dates) and no state is persisted for the date.
C26_RaiseLeavesStateUnchanged ==
    [][WriteRaised =>
          /\ run'.state = run.state
          /\ date_str \notin run'.state.processed_dates
          /\ persisted' = persisted
          /\ run'.i = run.i + 1]_vars

\* the write of the first date of a run has raised after the partition file
\* was written: the run is at its next date, the state without the first
C26_Witness ==
    /\ run.pc = "loop"
    /\ run.i = 2
    /\ run.daily_data > 0
    /\ run.dates_to_extract[1] \in partitions
    /\ run.dates_to_extract[1] \notin run.state.processed_dates
    /\ run.state.total_records_extracted = 0
    /\ ~persisted.exists

\* C27: in every reachable state, processed_dates, in memory and as
\* persisted, holds no date for which no write of an output partition was
\* attempted.
C27_ProcessedDatesWereWritten ==
    /\ run.state.processed_dates \subseteq attempted
    /\ persisted.state.processed_dates \subseteq attempted

\* date a is not later than date b; no date at all is earlier than any date
NotLater(a, b) == a = NoDate \/ (b # NoDate /\ strptime(a) <= strptime(b))

\* C38: last_extraction_date never moves backwards: across any sequence of
\* runs in any mode, an explicit-date run for an older date included, no
\* step sets it, in the state of the run or in the stored state, to a date
\* earlier than its value before.
C38_LastDateNeverMovesBack ==
    [][/\ NotLater(persisted.state.last_extraction_date,
                   persisted'.state.last_extraction_date)
       /\ (run.pc # "idle" /\ run'.pc # "idle") =>
              NotLater(run.state.last_extraction_date,
                       run'.state.last_extraction_date)]_vars

\* the dates of the days the daily runs cover
DailyDates == {strftime(RunFirstDay + k) : k \in 0..DailyDays}

\* a run has ended, by returning or by a stop of the process, the write of
\* date d was attempted in it or before, and the stored state does not hold
\* d in processed_dates
LeftOut(d) ==
    /\ run.pc = "idle"
    /\ d \in attempted
    /\ d \notin load_state.processed_dates

\* a run in progress has d among its dates_to_extract
Selected(d) ==
    /\ run.pc # "idle"
    /\ \E k \in 1..Len(run.dates_to_extract) : run.dates_to_extract[k] = d

Texts ==
    { <<>>, <<" ">>, <<"a">>, <<"A">>, <<"á">>, <<"b">>,
      <<"a", "b">>, <<"b", "a">>, <<"b", " ">>, <<"a", " ", "b">> }

\* raw records: objetoCompra missing, empty or a text
Records == {EmptyDict} \cup {[objetoCompra |-> t] : t \in Texts}

\* the contents of filtros.json (an input of the program): group -> terms,
\* in file order
Dictionaries ==
    { <<>>,
      << [grupo |-> <<"B">>, termos |-> << <<"a">> >>],
         [grupo |-> <<"A", "B">>, termos |-> << <<"á">>, <<"b", " ">> >>] >>,
      << [grupo |-> <<"A">>, termos |-> <<>>],
         [grupo |-> <<"b">>, termos |-> << <<"a", "b">>, <<"A">> >>] >> }

FilterIdle ==
    /\ fm = NewFilterManager(TRUE, TRUE, <<>>)
    /\ filter_ret = NoRet
    /\ llm_calls = 0

FilterInit ==
    /\ \E ativo \in BOOLEAN, llm_ativo \in BOOLEAN, d \in Dictionaries :
          fm = NewFilterManager(ativo, llm_ativo, d)
    /\ filter_ret = NoRet
    /\ llm_calls = 0

\* one call of should_include_record on fm
ApplyFilter(record, llm) ==
    LET out == should_include_record(fm, record, llm)
    IN  /\ fm' = [fm EXCEPT !.stats = out.stats]
        /\ filter_ret' = [incluir |-> out.incluir, motivo |-> out.motivo,
                          detalhes |-> out.detalhes]
        /\ llm_calls' = llm_calls + (IF out.llm_called THEN 1 ELSE 0)

FilterRecord ==
    /\ fm.stats.total_analisados < MaxRecords
    /\ \E record \in Records : \E llm \in LLMOutcomes(record) :
          ApplyFilter(record, llm)
    /\ UNCHANGED <<planVars, harvestVars, runVars, oracleVars, normVars, storeVars, parseVars, poolVars>>


\* C10: a record Stage 1 rejects is rejected without the Stage 2 oracle
\* being invoked: a call that counts a Stage 1 rejection returns
\* incluir = False and makes no LLM call, and the number of LLM calls never
\* exceeds the number of Stage 1 approvals.
C10_Stage1RejectSkipsOracle ==
    /\ [](llm_calls <= fm.stats.etapa1_aprovados)
    /\ [][(fm'.stats.etapa1_rejeitados > fm.stats.etapa1_rejeitados)
            => (llm_calls' = llm_calls /\ ~filter_ret'.incluir)]_vars

C10_Witness ==
    /\ fm.llm_ativo
    /\ fm.stats.etapa1_rejeitados >= 1
    /\ fm.stats.llm_economizados >= 1
    /\ fm.stats.etapa1_aprovados >= 1
    /\ llm_calls = 1

\* the outcome of llm_filter.should_include_record in which the call raises
RaisingLLM(record) == CHOOSE llm \in LLMOutcomes(record) : llm.raises

\* Stage 1 approves the record on fm
Stage1Approves(record) ==
    /\ DictGet(record, "objetoCompra", <<>>) # <<>>
    /\ apply_keyword_filter(fm, DictGet(record, "objetoCompra", <<>>)).aprovado

\* C11: with Stage 2 enabled and its call raising, should_include_record on
\* a record Stage 1 approves returns incluir = True with the Stage 1
\* details, flagged filtro_hibrido = False and llm_disponivel = True, and
\* counts the record as approved; the call returns, it does not raise.
C11_Stage2FailureFallsBackToStage1 ==
    (fm.ativo /\ fm.llm_ativo) =>
        \A record \in Records :
            Stage1Approves(record) =>
                LET e1  == apply_keyword_filter(fm, record.objetoCompra)
                    out == should_include_record(fm, record, RaisingLLM(record))
                IN  /\ out.incluir
                    /\ out.llm_called
                    /\ out.detalhes = DictMerge(e1.detalhes,
                                          [filtro_hibrido |-> FALSE,
                                           llm_disponivel |-> TRUE])
                    /\ out.stats.filtrados_aprovados
                          = fm.stats.filtrados_aprovados + 1
                    /\ out.stats.filtrados_rejeitados
                          = fm.stats.filtrados_rejeitados

\* a call went to Stage 2, which raised, and the Stage 1 decision was returned
C11_Witness ==
    /\ fm.ativo /\ fm.llm_ativo
    /\ llm_calls = 1
    /\ fm.stats.etapa2_aprovados + fm.stats.etapa2_rejeitados = 0
    /\ filter_ret.incluir
    /\ "llm_disponivel" \in DOMAIN filter_ret.detalhes
    /\ filter_ret.detalhes.llm_disponivel = TRUE
    /\ filter_ret.detalhes.filtro_hibrido = FALSE

\* the places Stage 1 can match at: group number g of the dictionary in file
\* order, with its own name (t = 0) or its member term number t
Candidates(grupos) ==
    UNION {{<<g, t>> : t \in 0..Len(grupos[g].termos)} : g \in 1..Len(grupos)}

CandidateTerm(grupos, c) ==
    IF c[2] = 0 THEN grupos[c[1]].grupo ELSE grupos[c[1]].termos[c[2]]

\* the candidate is a non-empty term found in the text at word boundaries
CandidateMatches(grupos, c, text) ==
    /\ normalize_text(CandidateTerm(grupos, c)) # <<>>
    /\ match_exact_word(normalize_text(text), normalize_text(CandidateTerm(grupos, c)))

\* c is tested before d: its group has the longer name (file order among
\* names of one length), or it is the same group and c is the name or an
\* earlier term
TestedBefore(grupos, c, d) ==
    \/ Len(grupos[c[1]].grupo) > Len(grupos[d[1]].grupo)
    \/ Len(grupos[c[1]].grupo) = Len(grupos[d[1]].grupo) /\ c[1] < d[1]
    \/ c[1] = d[1] /\ c[2] < d[2]

\* C20: Stage 1 tests groups in order of descending group-name length, and
\* inside a group the group's own name before its member terms; the first
\* word-boundary match wins: the returned (grupo_matched, termo_matched) is
\* the first matching candidate in that order, there is a match exactly when
\* some candidate matches, and the answer does not depend on the calls made
\* before (the statistics the filter has accumulated).
C20_FirstMatchInOrderWins ==
    \A text \in Texts :
        LET grupos == fm.grupos_termos
            e1 == apply_keyword_filter(fm, text)
            matching == {c \in Candidates(grupos) : CandidateMatches(grupos, c, text)}
        IN  /\ e1.aprovado <=> matching # {}
            /\ e1.aprovado =>
                  \E c \in matching :
                     /\ \A d \in matching \ {c} : TestedBefore(grupos, c, d)
                     /\ e1.detalhes.grupo_matched = grupos[c[1]].grupo
                     /\ e1.detalhes.termo_matched = CandidateTerm(grupos, c)
            /\ LET fresh == apply_keyword_filter(
                                NewFilterManager(fm.ativo, fm.llm_ativo, grupos), text)
               IN  /\ e1.aprovado = fresh.aprovado
                   /\ e1.motivo = fresh.motivo
                   /\ e1.detalhes = fresh.detalhes

\* a call has matched the term of the longer-named group although a group
\* earlier in the file, with a shorter name, matches the text by its name
C20_Witness ==
    /\ fm.stats.total_analisados > 1
    /\ "grupo_matched" \in DOMAIN filter_ret.detalhes
    /\ filter_ret.detalhes.grupo_matched = <<"A", "B">>
    /\ filter_ret.detalhes.termo_matched = <<"á">>
    /\ CandidateMatches(fm.grupos_termos, <<1, 0>>, filter_ret.detalhes.objetivo_compra)
    /\ Len(fm.grupos_termos[1].grupo) < Len(filter_ret.detalhes.grupo_matched)

\* objetoCompra is missing from the record or is the empty string
EmptyObjective(record) == DictGet(record, "objetoCompra", <<>>) = <<>>

\* C21: with the filter active, a record whose objetoCompra is empty is
\* rejected with the reason "objetoCompra vazio" and without a call of the
\* Stage 2 oracle, whatever the oracle would have answered.
C21_EmptyObjectiveRejected ==
    fm.ativo =>
        \A record \in {r \in Records : EmptyObjective(r)} :
            \A llm \in LLMOutcomes(record) :
                LET out == should_include_record(fm, record, llm)
                IN  /\ ~out.incluir
                    /\ out.motivo = [m |-> "objetoCompra vazio"]
                    /\ out.detalhes = EmptyDict
                    /\ ~out.llm_called

\* a call on an active filter with Stage 2 enabled has returned the
\* empty-objective rejection, and no oracle call has been made
C21_Witness ==
    /\ fm.ativo /\ fm.llm_ativo
    /\ fm.stats.total_analisados = 1
    /\ fm.stats.etapa1_rejeitados = 1
    /\ filter_ret.motivo = [m |-> "objetoCompra vazio"]
    /\ ~filter_ret.incluir
    /\ llm_calls = 0

\* the texts at hand: the objetoCompra texts and the group names and terms
\* of the dictionary of fm
TextsAtHand ==
    Texts \cup {CandidateTerm(fm.grupos_termos, c) : c \in Candidates(fm.grupos_termos)}

\* C24: for every non-empty text t, match_exact_word(t, t) is true.
C24_TextMatchesItself ==
    \A t \in TextsAtHand : t # <<>> => match_exact_word(t, t)

\* C34: every Stage 1 rejection, the empty-objective rejection included,
\* adds exactly one to the counter of oracle calls avoided: after any
\* sequence of should_include_record calls llm_economizados equals
\* etapa1_rejeitados.
C34_AvoidedEqualsStage1Rejections ==
    fm.stats.llm_economizados = fm.stats.etapa1_rejeitados

\* C39: with filtering enabled, after any sequence of should_include_record
\* calls total_analisados = filtrados_aprovados + filtrados_rejeitados,
\* total_analisados = etapa1_aprovados + etapa1_rejeitados, and
\* etapa2_aprovados + etapa2_rejeitados <= etapa1_aprovados, the calls in
\* which Stage 2 raised included.
C39_CountersAddUp ==
    fm.ativo =>
        /\ fm.stats.total_analisados
              = fm.stats.filtrados_aprovados + fm.stats.filtrados_rejeitados
        /\ fm.stats.total_analisados
              = fm.stats.etapa1_aprovados + fm.stats.etapa1_rejeitados
        /\ fm.stats.etapa2_aprovados + fm.stats.etapa2_rejeitados
              <= fm.stats.etapa1_aprovados

\* three calls: one rejected by Stage 1, one decided by Stage 2, and one in
\* which Stage 2 raised
C39_Witness ==
    /\ fm.ativo /\ fm.llm_ativo
    /\ fm.stats.total_analisados = 3
    /\ fm.stats.etapa1_rejeitados = 1
    /\ fm.stats.etapa1_aprovados = 2
    /\ fm.stats.etapa2_aprovados + fm.stats.etapa2_rejeitados = 1
    /\ llm_calls = 2

(***************************************************************************)
(* LLMFilter (src/llm_filter.py)                                           *)
(*                                                                         *)
(* Time is counted in units of 20 seconds: the calls are made, and the     *)
(* configured delays end, on multiples of the unit.  response_time and the *)
(* cost figures, which no decision depends on, are left out.               *)
(***************************************************************************)
\* the 60 seconds of _wait_for_rate_limit, in time units
RateWindow == 3

\* str.strip() on the alphabet: leading and trailing spaces removed
RECURSIVE LStrip(_)
LStrip(t) == IF t # <<>> /\ Head(t) = " " THEN LStrip(Tail(t)) ELSE t

RECURSIVE RStrip(_)
RStrip(t) ==
    IF t # <<>> /\ t[Len(t)] = " " THEN RStrip(SubSeq(t, 1, Len(t) - 1)) ELSE t

Strip(t) == RStrip(LStrip(t))

\* LLMFilter._generate_cache_key: md5 of lower().strip(); the digest is taken
\* to be one-to-one on the normalized text
generate_cache_key(objetivo_compra) ==
    Strip([i \in 1..Len(objetivo_compra) |-> Lower(objetivo_compra[i])])

\* LLMFilterStats()
InitialLLMStats ==
    [total_queries |-> 0, aprovados |-> 0, rejeitados |-> 0, cache_hits |-> 0,
     cache_misses |-> 0, total_tokens |-> 0, errors |-> 0]

\* LLMFilter.__init__ with the three settings read from config
NewLLMFilter(max_requests_per_minute, llm_delay, cache_ttl) ==
    [max_requests_per_minute |-> max_requests_per_minute,
     delay_between_requests |-> llm_delay,
     cache_ttl |-> cache_ttl,
     cache |-> EmptyDict,
     request_timestamps |-> <<>>,
     stats |-> InitialLLMStats]

\* no stored entry is ever taken as valid
is_cache_validMutant(o, cache_entry, t) == FALSE

\* every stored entry is taken as valid, whatever its age
is_cache_validAlways(o, cache_entry, t) == TRUE

\* LLMFilter._is_cache_valid
is_cache_valid(o, cache_entry, t) == t < cache_entry.timestamp + o.cache_ttl

\* LLMFilter._get_from_cache: the response (found = FALSE for None) and the
\* instance after the lookup
get_from_cache(o, objetivo_compra, t) ==
    LET cache_key == generate_cache_key(objetivo_compra)
        miss(c) == [found |-> FALSE, response |-> EmptyDict,
                    o |-> [o EXCEPT !.cache = c,
                                    !.stats.cache_misses = @ + 1]]
    IN  IF cache_key \in DOMAIN o.cache
        THEN IF is_cache_valid(o, o.cache[cache_key], t)
             THEN [found |-> TRUE,
                   response |-> [o.cache[cache_key].response EXCEPT !.cached = TRUE],
                   o |-> [o EXCEPT !.stats.cache_hits = @ + 1]]
             ELSE miss([k \in DOMAIN o.cache \ {cache_key} |-> o.cache[k]])
        ELSE miss(o.cache)

\* LLMFilter._save_to_cache
save_to_cache(o, objetivo_compra, response, t) ==
    [o EXCEPT !.cache = DictMerge(@,
        [k \in {generate_cache_key(objetivo_compra)} |->
            [timestamp |-> t, response |-> response]])]

\* LLMFilter._wait_for_rate_limit entered at time t: the list it leaves and
\* the time at which it returns
wait_for_rate_limit(o, t) ==
    LET kept == SelectSeq(o.request_timestamps, LAMBDA ts : t - ts < RateWindow)
        sleep_time == IF Len(kept) >= o.max_requests_per_minute
                      THEN RateWindow - (t - kept[1])
                      ELSE 0
        slept == IF sleep_time > 0 THEN sleep_time ELSE 0
    IN  [request_timestamps |-> Append(kept, t),
         t |-> t + slept + o.delay_between_requests]

\* What chat.completions.create and the reading of its answer can do: the
\* call raises (transport), the answer lacks a part the code reads (parse),
\* or it yields the fields _parse_llm_response extracts and the token count.
OracleReplies ==
    {[kind |-> k, decisao |-> "REJEITAR", confianca |-> 0, total_tokens |-> 0]
        : k \in {"transport", "parse"}}
    \cup
    {[kind |-> "ok", decisao |-> d, confianca |-> 90, total_tokens |-> 2]
        : d \in {"APROVAR", "REJEITAR"}}

\* str(e) of the exception
ErrorText(kind) == <<"Erro na analise LLM: ", kind>>

\* the error answer counted among the approvals, with tokens charged
ErrorResponseMutant(kind) ==
    [decisao |-> "APROVAR", categoria |-> "", confianca |-> 0,
     justificativa |-> ErrorText(kind), tokens_used |-> 1, cached |-> FALSE]

\* query_llm, "Retornar resposta padrao em caso de erro"
ErrorResponse(kind) ==
    [decisao |-> "REJEITAR", categoria |-> "", confianca |-> 0,
     justificativa |-> ErrorText(kind), tokens_used |-> 0, cached |-> FALSE]

\* query_llm, "Criar objeto de resposta"
ParsedResponse(reply) ==
    [decisao |-> reply.decisao, categoria |-> "", confianca |-> reply.confianca,
     justificativa |-> <<"ok">>, tokens_used |-> reply.total_tokens,
     cached |-> FALSE]

\* LLMFilter.query_llm entered at time t, reply being what the endpoint does
\* if it is asked: the response returned, the instance and the time after the
\* call, and whether and when a request was sent.
query_llm(o, objetivo_compra, reply, t) ==
    LET looked == get_from_cache(o, objetivo_compra, t)
        o1 == [looked.o EXCEPT !.stats.total_queries = @ + 1]
        rl == wait_for_rate_limit(o1, t)
        o2 == [o1 EXCEPT !.request_timestamps = rl.request_timestamps]
        llm_response == ParsedResponse(reply)
        o3 == [o2 EXCEPT
                 !.stats.aprovados =
                     IF llm_response.decisao = "APROVAR" THEN @ + 1 ELSE @,
                 !.stats.rejeitados =
                     IF llm_response.decisao = "APROVAR" THEN @ ELSE @ + 1,
                 !.stats.total_tokens = @ + reply.total_tokens]
    IN  IF looked.found
        THEN [response |-> looked.response, o |-> looked.o, t |-> t,
              sent |-> FALSE, sent_at |-> t]
        ELSE IF reply.kind = "ok"
        THEN [response |-> llm_response,
              o |-> save_to_cache(o3, objetivo_compra, llm_response, rl.t),
              t |-> rl.t, sent |-> TRUE, sent_at |-> rl.t]
        ELSE [response |-> ErrorResponse(reply.kind),
              o |-> [o2 EXCEPT !.stats.errors = @ + 1],
              t |-> rl.t, sent |-> TRUE, sent_at |-> rl.t]

\* the objetoCompra texts handed to query_llm
OracleTexts == {<<"a">>, <<"A", " ">>, <<"b">>}

NoResponse == ErrorResponse("none")

NoHist ==
    [sent |-> <<>>, outcome |-> "none", nq |-> 0, last_key |-> <<>>,
     last_text |-> <<>>, last_net |-> EmptyDict]

OracleIdle ==
    /\ oracle = NewLLMFilter(1, 0, 0)
    /\ time_now = 0
    /\ oracle_ret = NoResponse
    /\ hist = NoHist

\* a new LLMFilter; the settings are those of config
OracleInit ==
    /\ \E max_requests_per_minute \in 1..2, llm_delay \in 0..1, cache_ttl \in {0, 2} :
          oracle = NewLLMFilter(max_requests_per_minute, llm_delay, cache_ttl)
    /\ time_now = 0
    /\ oracle_ret = NoResponse
    /\ hist = NoHist

\* one call of query_llm
QueryLLM ==
    /\ hist.nq < MaxQueries
    /\ \E objetivo_compra \in OracleTexts, reply \in OracleReplies :
          LET out == query_llm(oracle, objetivo_compra, reply, time_now)
              key == generate_cache_key(objetivo_compra)
          IN  /\ oracle' = out.o
              /\ time_now' = out.t
              /\ oracle_ret' = out.response
              /\ hist' = [sent |-> IF out.sent THEN Append(hist.sent, out.sent_at)
                                   ELSE hist.sent,
                          outcome |-> IF out.sent THEN reply.kind ELSE "hit",
                          nq |-> hist.nq + 1,
                          last_key |-> key,
                          last_text |-> objetivo_compra,
                          last_net |->
                              IF out.sent
                              THEN DictMerge(hist.last_net,
                                       [k \in {key} |->
                                           [t |-> out.sent_at,
                                            text |-> objetivo_compra,
                                            ok |-> reply.kind = "ok",
                                            response |-> out.response]])
                              ELSE hist.last_net]
    /\ UNCHANGED <<planVars, filterVars, harvestVars, runVars, normVars, storeVars, parseVars, poolVars>>

\* time passes between two calls
Advance ==
    /\ time_now < MaxTime
    /\ time_now' = time_now + 1
    /\ UNCHANGED <<oracle, oracle_ret, hist>>
    /\ UNCHANGED <<planVars, filterVars, harvestVars, runVars, normVars, storeVars, parseVars, poolVars>>

OracleNext == QueryLLM \/ Advance

(***************************************************************************)
(* Claims on LLMFilter                                                     *)
(***************************************************************************)
\* the step is one call of query_llm
IsQuery == hist'.nq = hist.nq + 1

\* the last call asked the endpoint and met a transport or parse error
LastQueryFailed == hist.outcome \in {"transport", "parse"}

\* C12: query_llm returns on every transport or parse error: the call adds
\* exactly one to stats.errors (and a call without error adds none) and its
\* response is REJEITAR with tokens_used = 0 and the error text as
\* justificativa.
C12_OracleErrorIsReject ==
    /\ [](LastQueryFailed =>
            /\ oracle_ret.decisao = "REJEITAR"
            /\ oracle_ret.tokens_used = 0
            /\ oracle_ret.justificativa = ErrorText(hist.outcome)
            /\ ~oracle_ret.cached)
    /\ [][IsQuery =>
            oracle'.stats.errors =
                oracle.stats.errors + (IF LastQueryFailed' THEN 1 ELSE 0)]_vars

\* two calls in a row failed, the second on the reading of the answer
C12_Witness ==
    /\ hist.outcome = "parse"
    /\ oracle.stats.errors = 2
    /\ hist.nq = 2
    /\ oracle_ret.tokens_used = 0

\* the last request sent for the cache key of the call being made, if it is
\* less than the TTL old
EarlierCallWithinTTL ==
    /\ IsQuery
    /\ hist'.last_key \in DOMAIN hist.last_net
    /\ time_now < hist.last_net[hist'.last_key].t + oracle.cache_ttl

\* the call is answered from the cache: no request is sent, and the response
\* is the one the earlier request got, marked cached
ServedFromCache ==
    /\ hist'.sent = hist.sent
    /\ oracle_ret' = [hist.last_net[hist'.last_key].response EXCEPT !.cached = TRUE]

FindsExpiredEntry ==
    /\ IsQuery
    /\ hist'.last_key \in DOMAIN oracle.cache
    /\ time_now >= oracle.cache[hist'.last_key].timestamp + oracle.cache_ttl

\* C33: a cache entry older than the TTL is never returned.  A call whose
\* lookup finds an expired entry counts a cache miss and sends a fresh
\* request, and the expired entry is gone: the key is either absent or holds
\* the response of this call; a response marked cached comes from an entry
\* younger than the TTL; every call adds one to exactly one of cache_hits
\* and cache_misses.
C33_ExpiredEntryNeverReturned ==
    /\ [][FindsExpiredEntry =>
            /\ oracle'.stats.cache_misses = oracle.stats.cache_misses + 1
            /\ hist'.sent # hist.sent
            /\ ~oracle_ret'.cached
            /\ hist'.last_key \in DOMAIN oracle'.cache =>
                  /\ oracle'.cache[hist'.last_key].response = oracle_ret'
                  /\ oracle'.cache[hist'.last_key].timestamp = time_now']_vars
    /\ [][(IsQuery /\ oracle_ret'.cached) =>
            /\ hist'.last_key \in DOMAIN oracle.cache
            /\ time_now < oracle.cache[hist'.last_key].timestamp + oracle.cache_ttl
            /\ oracle_ret' = [oracle.cache[hist'.last_key].response EXCEPT !.cached = TRUE]]_vars
    /\ [][IsQuery =>
            \/ /\ oracle'.stats.cache_hits = oracle.stats.cache_hits + 1
               /\ oracle'.stats.cache_misses = oracle.stats.cache_misses
            \/ /\ oracle'.stats.cache_hits = oracle.stats.cache_hits
               /\ oracle'.stats.cache_misses = oracle.stats.cache_misses + 1]_vars

\* with a TTL of 2, the second call for a key came when the entry of the
\* first had expired: it was a miss, it sent a request of its own, and its
\* response is the one stored now
C33_Witness ==
    /\ oracle.cache_ttl = 2
    /\ hist.nq = 2
    /\ Len(hist.sent) = 2
    /\ hist.sent[2] >= hist.sent[1] + 2
    /\ DOMAIN hist.last_net = {hist.last_key}
    /\ DOMAIN oracle.cache = {hist.last_key}
    /\ oracle.stats.cache_misses = 2
    /\ oracle.stats.cache_hits = 0
    /\ oracle.cache[hist.last_key].response = oracle_ret

\* the requests sent in the 60 seconds that end with request number i
SentInWindow(i) ==
    {j \in 1..i : hist.sent[i] - hist.sent[j] < RateWindow}

\* C14: in any 60-second window at most max_requests_per_minute requests
\* are sent.
C14_RateLimitRespected ==
    \A i \in 1..Len(hist.sent) :
        Cardinality(SentInWindow(i)) <= oracle.max_requests_per_minute

(***************************************************************************)
(* normalize_record_schema and enrich_record_with_domain_data on raw       *)
(* records of every shape                                                  *)
(***************************************************************************)
\* what the API can put in unidadeOrgao: null, an empty, partial or complete
\* object, an object with a field outside the schema, a string, a list
RawStructValues ==
    {PyNone, PyDict(EmptyDict), PyDict([codigoIbge |-> "x"]),
     PyDict([default_unidade_schema EXCEPT !.ufSigla = "SP"]),
     PyDict([codigoIbge |-> "x", extra |-> "y"]), PyStr("x"), PyList(<<>>)}

\* what the API can put in fontesOrcamentarias
RawFontesValues ==
    {PyNone, PyList(<<>>), PyList(<<PyNone>>),
     PyList(<<PyDict([codigo |-> "x"]), PyDict(default_fonte_schema)>>),
     PyList(<<PyStr("x")>>), PyStr("x"), PyDict(EmptyDict)}

BaseRecord == [numeroControlePNCP |-> "1", objetoCompra |-> <<"a">>]

\* raw records as the API returns them
RawRecords ==
    {BaseRecord, DictMerge(BaseRecord, [modalidadeId |-> "6"])}
    \cup {DictMerge(BaseRecord, [k \in {"unidadeOrgao"} |-> v]) : v \in RawStructValues}
    \cup {DictMerge(BaseRecord, [k \in {"orgaoSubRogado"} |-> v]) :
             v \in {PyNone, PyDict([cnpj |-> "x"]), PyStr("x")}}
    \cup {DictMerge(BaseRecord, [k \in {"fontesOrcamentarias"} |-> v]) :
             v \in RawFontesValues}
    \cup {DictMerge(BaseRecord,
             [unidadeOrgao |-> PyDict(default_unidade_schema),
              orgaoEntidade |-> PyDict(default_orgao_schema),
              amparoLegal |-> PyDict(default_amparo_schema),
              unidadeSubRogada |-> PyDict(default_unidade_schema),
              orgaoSubRogado |-> PyDict(default_orgao_schema),
              fontesOrcamentarias |-> PyList(<<PyDict(default_fonte_schema)>>)])}

NoNormalize ==
    [called |-> FALSE, record |-> EmptyDict, after |-> EmptyDict,
     result |-> [raises |-> FALSE, normalized |-> EmptyDict],
     again |-> [raises |-> FALSE, normalized |-> EmptyDict]]

NormInit ==
    /\ nrm = NoNormalize
    /\ emitted = <<>>

\* normalize_record_schema(record), and the same call on what it returned
NormalizeRecord ==
    /\ \E record \in RawRecords :
          LET result == normalize_record_schema(record)
          IN  nrm' = [called |-> TRUE, record |-> record,
                      after |-> RecordAfterNormalize(record), result |-> result,
                      again |-> IF result.raises THEN result
                                ELSE normalize_record_schema(result.normalized)]
    /\ UNCHANGED emitted
    /\ UNCHANGED <<planVars, filterVars, harvestVars, runVars, oracleVars, storeVars, parseVars, poolVars>>

\* enrich_record_with_domain_data(record) for a record the filter lets
\* through ("Filtro desativado"); the record returned goes to all_data and
\* from there to save_to_parquet
EmitRecord ==
    /\ Len(emitted) < MaxEmitted
    /\ \E record \in RawRecords :
          LET out == FilterOut(TRUE, [m |-> "Filtro desativado"], EmptyDict,
                               InitialStats, FALSE)
              enriched == EnrichAccepted(record, out)
          IN  emitted' = IF enriched.raises THEN emitted
                         ELSE Append(emitted, enriched.normalized)
    /\ UNCHANGED nrm
    /\ UNCHANGED <<planVars, filterVars, harvestVars, runVars, oracleVars, storeVars, parseVars, poolVars>>

NormNext == NormalizeRecord \/ EmitRecord

\* the key sets of a record: top level, each nested dict, each element of
\* fontesOrcamentarias
KeySets(r) ==
    [top |-> DOMAIN r,
     nested |-> [i \in 1..Len(StructFields) |-> DOMAIN r[StructFields[i]].v],
     fontes |-> {DOMAIN r["fontesOrcamentarias"].v[i].v :
                    i \in 1..Len(r["fontesOrcamentarias"].v)}]

\* C15: every record emitted has the same top-level key set and the same
\* nested key sets as every other emitted record.
C15_EmittedKeySetsEqual ==
    \A i, j \in 1..Len(emitted) :
        /\ KeySets(emitted[i]).top = KeySets(emitted[j]).top
        /\ KeySets(emitted[i]).nested = KeySets(emitted[j]).nested
        /\ Cardinality(KeySets(emitted[i]).fontes \cup KeySets(emitted[j]).fontes) <= 1

\* C16: normalize_record_schema is idempotent: for every record, normalizing
\* what the first call returned gives that same record again (and where the
\* first call raises there is nothing to normalize again: the composition
\* raises as the single call does).
C16_NormalizeIdempotent ==
    nrm.called =>
        /\ nrm.again = nrm.result
        /\ ~nrm.result.raises =>
              normalize_record_schema(nrm.result.normalized).normalized
                  = nrm.result.normalized

\* a record with a partial nested dict was normalized, which changed it
C16_Witness ==
    /\ nrm.called
    /\ ~nrm.result.raises
    /\ "unidadeOrgao" \in DOMAIN nrm.record
    /\ nrm.record["unidadeOrgao"] = PyDict([codigoIbge |-> "x"])
    /\ nrm.result.normalized # nrm.record
    /\ nrm.again = nrm.result

\* every nested field of r has the fixed shape
FixedShape(r) ==
    /\ \A i \in 1..Len(StructFields) :
          /\ StructFields[i] \in DOMAIN r
          /\ r[StructFields[i]].tag = "dict"
    /\ DOMAIN default_unidade_schema \subseteq DOMAIN r["unidadeOrgao"].v
    /\ DOMAIN default_orgao_schema \subseteq DOMAIN r["orgaoEntidade"].v
    /\ DOMAIN default_amparo_schema \subseteq DOMAIN r["amparoLegal"].v
    /\ DOMAIN default_unidade_schema \subseteq DOMAIN r["unidadeSubRogada"].v
    /\ DOMAIN default_orgao_schema \subseteq DOMAIN r["orgaoSubRogado"].v
    /\ r["fontesOrcamentarias"].tag = "list"
    /\ \A i \in 1..Len(r["fontesOrcamentarias"].v) :
          /\ r["fontesOrcamentarias"].v[i].tag = "dict"
          /\ DOMAIN default_fonte_schema \subseteq DOMAIN r["fontesOrcamentarias"].v[i].v

\* C17: normalize_record_schema never raises: whatever the nested fields
\* hold (nothing, None, a value that is not a dict, or not a list for the
\* array) it returns the record with the fields in the fixed shape.
C17_NormalizeNeverRaises ==
    nrm.called => (~nrm.result.raises /\ FixedShape(nrm.result.normalized))

\* C40: normalize_record_schema leaves its input record unchanged: after
\* the call the caller's record, its nested sub-objects and the elements of
\* its fontesOrcamentarias list included, has the keys and values it had
\* before.
C40_InputRecordUnchanged ==
    nrm.called => nrm.after = nrm.record

(***************************************************************************)
(* save_to_parquet, StorageManager.save_parquet, consolidate_old_files     *)
(*                                                                         *)
(* The files of one month: a Parquet file is the sequence of its rows, a   *)
(* row a function on its columns.  extraction_date and consolidation       *)
(* timestamps are left out.                                                *)
(***************************************************************************)
\* consolidate_old_files: safe_columns
safe_columns ==
    {"sequencialContratacao", "numeroContratacao", "codigoUnidadeOrgao",
     "dataPublicacao", "objetoContrato"}

\* the record lists handed to save_to_parquet: none, one record, two records
\* of which one repeats a key, a record without any of the safe columns
Datasets ==
    { <<>>,
      << [sequencialContratacao |-> "1", objetoCompra |-> "a"] >>,
      << [sequencialContratacao |-> "1", objetoCompra |-> "b"],
         [sequencialContratacao |-> "2", objetoCompra |-> "a"] >>,
      << [objetoCompra |-> "c"] >> }

NoFiles == [daily |-> EmptyDict, cons |-> [exists |-> FALSE, rows |-> <<>>]]

NoStoreOp ==
    [op |-> "none", n |-> 0, before |-> NoFiles, day |-> 0, data |-> <<>>,
     outcome |-> "none", cutoff |-> 0, daily_files |-> <<>>,
     read_fail |-> {}, unlink_fail |-> {}]

\* the month before the first call: no file yet, or the consolidated file an
\* earlier consolidation has left, holding a record of day 1
ConsolidatedBefore ==
    [daily |-> EmptyDict,
     cons |-> [exists |-> TRUE,
               rows |-> << [sequencialContratacao |-> "1", objetoCompra |-> "a",
                            data_publicacao |-> 1] >>]]

StoreIdle == files = NoFiles /\ store_op = NoStoreOp

StoreInit ==
    /\ files \in {NoFiles, ConsolidatedBefore}
    /\ store_op = [NoStoreOp EXCEPT !.before = files]

\* save_to_parquet: "df = pd.DataFrame(data)" with the control column
DataFrame(data, day) ==
    [i \in 1..Len(data) |-> DictMerge(data[i], [data_publicacao |-> day])]

\* save_to_parquet(data, date_str) on the files f.  outcome "ok": the file
\* and the metadata are written; "parquet": save_parquet returns False;
\* "metadata": the file is written and _save_extraction_metadata raises.
save_to_parquet(f, data, day, outcome) ==
    IF data = <<>> \/ outcome = "parquet" THEN f
    ELSE [f EXCEPT !.daily =
            DictMerge(@, [d \in {day} |-> DataFrame(data, day)])]

\* one call of save_to_parquet
SavePartition ==
    /\ store_op.n < MaxStoreOps
    /\ \E data \in Datasets, day \in 1..MonthDays, outcome \in {"ok", "parquet", "metadata"} :
          /\ files' = save_to_parquet(files, data, day, outcome)
          /\ store_op' = [NoStoreOp EXCEPT !.op = "save", !.n = store_op.n + 1,
                                           !.before = files, !.day = day,
                                           !.data = data, !.outcome = outcome]
    /\ UNCHANGED <<planVars, filterVars, harvestVars, runVars, oracleVars, normVars, parseVars, poolVars>>

\* the columns of pd.concat of the rows
Columns(rows) == UNION {DOMAIN rows[i] : i \in 1..Len(rows)}

\* the values of a row on the columns cols, NaN where the row has none
KeyOf(row, cols) == [c \in cols |-> IF c \in DOMAIN row THEN row[c] ELSE "NaN"]

\* drop_duplicates with keep='first'
DeduplicateMutant(rows) ==
    LET existing_safe_columns == safe_columns \cap Columns(rows)
        first == SelectSeq([i \in 1..Len(rows) |-> <<i, rows[i]>>],
                     LAMBDA x : \A j \in 1..(x[1] - 1) :
                         KeyOf(rows[j], existing_safe_columns)
                             # KeyOf(x[2], existing_safe_columns))
    IN  IF existing_safe_columns = {} THEN rows
        ELSE [i \in 1..Len(first) |-> first[i][2]]

\* "Remover duplicatas de forma segura": drop_duplicates(subset=
\* existing_safe_columns, keep='last'), skipped when no safe column exists
Deduplicate(rows) ==
    LET existing_safe_columns == safe_columns \cap Columns(rows)
        keep == {i \in 1..Len(rows) :
                    \A j \in (i + 1)..Len(rows) :
                        KeyOf(rows[j], existing_safe_columns)
                            # KeyOf(rows[i], existing_safe_columns)}
        RECURSIVE Pick(_)
        Pick(i) == IF i > Len(rows) THEN <<>>
                   ELSE (IF i \in keep THEN <<rows[i]>> ELSE <<>>) \o Pick(i + 1)
    IN  IF existing_safe_columns # {} THEN Pick(1) ELSE rows

\* the daily files consolidate_old_files takes: those dated before the cutoff
EligibleDays(f, cutoff) == {d \in DOMAIN f.daily : d < cutoff}

\* the orders in which glob can yield the files of days
RECURSIVE Orders(_)
Orders(days) ==
    IF days = {} THEN {<<>>}
    ELSE UNION {{<<d>> \o o : o \in Orders(days \ {d})} : d \in days}

\* the name of the consolidated file among the files read
ConsFile == 0

\* consolidate_old_files on the files f of the month.  daily_files is the
\* list of eligible files in glob order, read_fail the files whose
\* read_parquet raises, write_ok whether to_parquet succeeds, unlink_fail
\* the daily files whose unlink raises.
consolidate_old_files(f, daily_files, read_fail, write_ok, unlink_fail) ==
    LET cons_read == f.cons.exists /\ ConsFile \notin read_fail
        existing == IF cons_read THEN f.cons.rows ELSE <<>>
        nread == (IF cons_read THEN 1 ELSE 0)
                 + Cardinality({i \in 1..Len(daily_files) :
                                   daily_files[i] \notin read_fail})
        \* "Incluir arquivos diarios": the rows of the files that could be read
        RECURSIVE ReadDaily(_)
        ReadDaily(i) ==
            IF i > Len(daily_files) THEN <<>>
            ELSE (IF daily_files[i] \in read_fail THEN <<>> ELSE f.daily[daily_files[i]])
                 \o ReadDaily(i + 1)
        consolidated_df == Deduplicate(existing \o ReadDaily(1))
    IN  IF daily_files = <<>> \/ nread = 0 \/ ~write_ok THEN f
        ELSE [daily |-> [d \in {x \in DOMAIN f.daily :
                                   \/ x \in unlink_fail
                                   \/ \A i \in 1..Len(daily_files) : daily_files[i] # x}
                            |-> f.daily[d]],
              cons |-> [exists |-> TRUE, rows |-> consolidated_df]]

\* one call of consolidate_old_files
Consolidate ==
    /\ store_op.n < MaxStoreOps
    /\ \E cutoff \in 1..(MonthDays + 1) :
       \E daily_files \in Orders(EligibleDays(files, cutoff)) :
       \E read_fail \in SUBSET (EligibleDays(files, cutoff) \cup {ConsFile}) :
       \E write_ok \in BOOLEAN, unlink_fail \in SUBSET EligibleDays(files, cutoff) :
          /\ files' = consolidate_old_files(files, daily_files, read_fail,
                                            write_ok, unlink_fail)
          /\ store_op' = [NoStoreOp EXCEPT
                             !.op = "consolidate", !.n = store_op.n + 1,
                             !.before = files, !.cutoff = cutoff,
                             !.outcome = IF write_ok THEN "ok" ELSE "write",
                             !.daily_files = daily_files,
                             !.read_fail = read_fail,
                             !.unlink_fail = unlink_fail]
    /\ UNCHANGED <<planVars, filterVars, harvestVars, runVars, oracleVars, normVars, parseVars, poolVars>>

StoreNext == SavePartition \/ Consolidate

(***************************************************************************)
(* LLMFilter._parse_llm_response                                           *)
(*                                                                         *)
(* The answer of the LLM is the sequence of its lines, a line a sequence   *)
(* of tokens: a tag, a blank, a word, a number, a phrase.  startswith,     *)
(* replace, strip, upper, lower, int and "in" act on the tokens.           *)
(***************************************************************************)
\* the lines an answer is made of: the tags in both spellings, values that
\* are valid, lower-case, unknown, out of range or not a number, a tag that
\* is not at the start of the line, an empty line
ResponseLines ==
    { <<"DECISAO:", " ", "APROVAR">>,
      <<"DECISÃO:", " ", "rejeitar", " ">>,
      <<"DECISAO:", "TALVEZ">>,
      <<" ", "CONFIANCA:", " ", "90", "%">>,
      <<"CONFIANÇA:", "alta">>,
      <<"CONFIANCA:", "0">>,
      <<"CONFIANCA:", "150">>,
      <<"CONFIANCA:", "-5">>,
      <<"JUSTIFICATIVA:", " ", "Se enquadra">>,
      <<"JUSTIFICATIVA:", "não se enquadra">>,
      <<"JUSTIFICATIVA:", "materiais educacionais">>,
      <<"JUSTIFICATIVA:", "outro">>,
      <<"CATEGORIA:", "outro">>,
      <<"outro", "DECISAO:", "APROVAR">>,
      <<>> }

\* what int() makes of one token
IntValues == [t \in {"90", "0", "150", "-5"} |->
                 CASE t = "90" -> 90 [] t = "0" -> 0 [] t = "150" -> 150
                   [] t = "-5" -> 0 - 5]

\* str.upper() and str.lower() of one token
UpperToken(t) ==
    CASE t = "rejeitar" -> "REJEITAR" [] t = "alta" -> "ALTA"
      [] t = "outro" -> "OUTRO" [] t = "Se enquadra" -> "SE ENQUADRA"
      [] t = "não se enquadra" -> "NÃO SE ENQUADRA" [] OTHER -> t
LowerToken(t) ==
    CASE t = "Se enquadra" -> "se enquadra" [] t = "APROVAR" -> "aprovar"
      [] t = "TALVEZ" -> "talvez" [] OTHER -> t

\* line.replace(a, '').replace(b, ''): every occurrence removed
RemoveTokens(line, tags) == SelectSeq(line, LAMBDA t : t \notin tags)

\* 'se enquadra' in text or 'materiais educacionais' in text: the tokens
\* that contain one of the two phrases
SuggestsApproval(text) ==
    \E i \in 1..Len(text) :
        LowerToken(text[i]) \in {"se enquadra", "não se enquadra", "materiais educacionais"}

\* response_data before the lines are read
DefaultResponseData ==
    [decisao |-> "REJEITAR", categoria |-> <<>>, confianca |-> 0,
     justificativa |-> <<>>]

\* a DECISAO line read without the test "decision in ['APROVAR', 'REJEITAR']"
ParseLineMutant(response_data, raw) ==
    IF Strip(raw) # <<>> /\ Head(Strip(raw)) \in {"DECISAO:", "DECISÃO:"}
    THEN [response_data EXCEPT !.decisao = "APROVAR"]
    ELSE response_data

\* the body of "for line in lines" for one line
ParseLine(response_data, raw) ==
    LET line == Strip(raw)
        tag  == IF line = <<>> THEN "" ELSE Head(line)
    IN  IF tag \in {"DECISAO:", "DECISÃO:"}
        THEN LET stripped == Strip(RemoveTokens(line, {"DECISAO:", "DECISÃO:"}))
                 decision == [i \in 1..Len(stripped) |-> UpperToken(stripped[i])]
             IN  IF decision \in {<<"APROVAR">>, <<"REJEITAR">>}
                 THEN [response_data EXCEPT !.decisao = decision[1]]
                 ELSE response_data
        ELSE IF tag = "CATEGORIA:"
        THEN [response_data EXCEPT
                 !.categoria = Strip(RemoveTokens(line, {"CATEGORIA:"}))]
        ELSE IF tag \in {"CONFIANCA:", "CONFIANÇA:"}
        THEN LET conf_text == Strip(RemoveTokens(line,
                                  {"CONFIANCA:", "CONFIANÇA:", "%"}))
             IN  IF Len(conf_text) = 1 /\ conf_text[1] \in DOMAIN IntValues
                 THEN [response_data EXCEPT !.confianca = IntValues[conf_text[1]]]
                 ELSE [response_data EXCEPT !.confianca = 0]
        ELSE IF tag = "JUSTIFICATIVA:"
        THEN [response_data EXCEPT
                 !.justificativa = Strip(RemoveTokens(line, {"JUSTIFICATIVA:"}))]
        ELSE response_data

\* the "for line in lines" loop
RECURSIVE ParseLines(_, _)
ParseLines(response_data, lines) ==
    IF lines = <<>> THEN response_data
    ELSE ParseLines(ParseLine(response_data, Head(lines)), Tail(lines))

\* "Detectar inconsistencia: se justificativa sugere aprovacao mas decisao e
\* rejeitar"
Repair(response_data) ==
    IF /\ response_data.decisao = "REJEITAR"
       /\ response_data.confianca = 0
       /\ SuggestsApproval(response_data.justificativa)
    THEN [response_data EXCEPT !.decisao = "APROVAR", !.confianca = 85]
    ELSE response_data

\* LLMFilter._parse_llm_response(response_text)
parse_llm_response(response_text) ==
    Repair(ParseLines(DefaultResponseData, response_text))

RECURSIVE ResponseTexts(_)
ResponseTexts(n) ==
    IF n = 0 THEN {<<>>}
    ELSE ResponseTexts(n - 1)
         \cup {Append(t, l) : t \in ResponseTexts(n - 1), l \in ResponseLines}

ParseIdle == parse = [text |-> <<>>, called |-> FALSE, data |-> DefaultResponseData]

ParseInit ==
    \E text \in ResponseTexts(MaxLines) :
        parse = [text |-> text, called |-> FALSE, data |-> DefaultResponseData]

\* one call of _parse_llm_response
ParseResponse ==
    /\ ~parse.called
    /\ parse' = [parse EXCEPT !.called = TRUE, !.data = parse_llm_response(parse.text)]
    /\ UNCHANGED <<planVars, filterVars, harvestVars, runVars, oracleVars, normVars, storeVars, poolVars>>

(***************************************************************************)
(* extract_period_data: the categories one after the other, each with its  *)
(* own ThreadPoolExecutor (SpecPool)                                       *)
(***************************************************************************)
\* the widths the pool is configured with, up to the default
PoolWidths == 1..max_workers

NewPool(width) ==
    [max_workers |-> width,
     modalidade  |-> 1,
     pc          |-> "get_total_pages",
     total_pages |-> 0,
     queued      |-> <<>>,
     inflight    |-> {},
     finished    |-> {},
     consumed    |-> {}]

PoolIdle == pool = [NewPool(max_workers) EXCEPT !.pc = "idle"]

PoolInit == \E width \in PoolWidths : pool = NewPool(width)

\* a worker thread is free whenever fewer than max_workers items run
PoolStartMutant(m, p) ==
    /\ pool.pc = "as_completed"
    /\ pool.queued # <<>>
    /\ <<m, p>> = Head(pool.queued)
    /\ pool' = [pool EXCEPT !.queued = Tail(@), !.inflight = @ \cup {<<m, p>>}]
    /\ UNCHANGED <<planVars, filterVars, harvestVars, runVars, oracleVars, normVars, storeVars, parseVars>>

\* get_total_pages in the calling thread; 0 also when the request failed.
\* With pages, the executor is created and every page is submitted.
PoolCount ==
    /\ pool.pc = "get_total_pages"
    /\ \E n \in 0..MaxPages :
          pool' = IF n = 0
                  THEN [pool EXCEPT !.pc = "sleep", !.total_pages = 0]
                  ELSE [pool EXCEPT !.pc = "as_completed",
                                    !.total_pages = n,
                                    !.queued = [p \in 1..n |-> <<pool.modalidade, p>>],
                                    !.finished = {},
                                    !.consumed = {}]
    /\ UNCHANGED <<planVars, filterVars, harvestVars, runVars, oracleVars, normVars, storeVars, parseVars>>

\* a free worker thread takes the oldest submitted page and starts
\* extract_page_data
PoolStart(m, p) ==
    /\ pool.pc = "as_completed"
    /\ pool.queued # <<>>
    /\ <<m, p>> = Head(pool.queued)
    /\ Cardinality(pool.inflight) < pool.max_workers
    /\ pool' = [pool EXCEPT !.queued = Tail(@), !.inflight = @ \cup {<<m, p>>}]
    /\ UNCHANGED <<planVars, filterVars, harvestVars, runVars, oracleVars, normVars, storeVars, parseVars>>

\* extract_page_data returns (it catches every exception): the future is done
PoolFinish(m, p) ==
    /\ <<m, p>> \in pool.inflight
    /\ pool' = [pool EXCEPT !.inflight = @ \ {<<m, p>>}, !.finished = @ \cup {p}]
    /\ UNCHANGED <<planVars, filterVars, harvestVars, runVars, oracleVars, normVars, storeVars, parseVars>>

\* the as_completed loop takes a done future
PoolConsume(p) ==
    /\ pool.pc = "as_completed"
    /\ p \in pool.finished \ pool.consumed
    /\ pool' = [pool EXCEPT !.consumed = @ \cup {p}]
    /\ UNCHANGED <<planVars, filterVars, harvestVars, runVars, oracleVars, normVars, storeVars, parseVars>>

\* as_completed is exhausted, the with block shuts the executor down
\* (waiting for its threads) and extract_modalidade_parallel returns
PoolReturn ==
    /\ pool.pc = "as_completed"
    /\ pool.consumed = 1..pool.total_pages
    /\ pool.inflight = {}
    /\ pool' = [pool EXCEPT !.pc = "sleep"]
    /\ UNCHANGED <<planVars, filterVars, harvestVars, runVars, oracleVars, normVars, storeVars, parseVars>>

\* time.sleep(1), then the next category
PoolNextModalidade ==
    /\ pool.pc = "sleep"
    /\ pool' = [pool EXCEPT !.modalidade = @ + 1,
                            !.pc = IF pool.modalidade < NumModalidades
                                   THEN "get_total_pages" ELSE "done"]
    /\ UNCHANGED <<planVars, filterVars, harvestVars, runVars, oracleVars, normVars, storeVars, parseVars>>

PoolNext ==
    \/ PoolCount
    \/ \E m \in 1..NumModalidades, p \in 1..MaxPages : PoolStart(m, p)
    \/ \E m \in 1..NumModalidades, p \in 1..MaxPages : PoolFinish(m, p)
    \/ \E p \in 1..MaxPages : PoolConsume(p)
    \/ PoolReturn
    \/ PoolNextModalidade

(***************************************************************************)
(* Specifications                                                          *)
(***************************************************************************)
InitPlan == PlanInit /\ FilterIdle /\ HarvestIdle /\ RunInit /\ OracleIdle /\ NormInit /\ StoreIdle /\ ParseIdle /\ PoolIdle

SpecPlan == InitPlan /\ [][PlanDates]_vars

InitFilter == FilterInit /\ PlanIdle /\ HarvestIdle /\ RunInit /\ OracleIdle /\ NormInit /\ StoreIdle /\ ParseIdle /\ PoolIdle

SpecFilter == InitFilter /\ [][FilterRecord]_vars

InitHarvest ==
    /\ HarvestInit
    /\ PlanIdle
    /\ \E ativo \in BOOLEAN :
          fm = NewFilterManager(ativo, TRUE,
                   << [grupo |-> <<"A">>, termos |-> <<>>] >>)
    /\ filter_ret = NoRet
    /\ llm_calls = 0
    /\ RunInit
    /\ OracleIdle
    /\ NormInit
    /\ StoreIdle
    /\ ParseIdle
    /\ PoolIdle

SpecHarvest == InitHarvest /\ [][HarvestNext]_vars

Init == RunInit /\ PlanIdle /\ FilterIdle /\ HarvestIdle /\ OracleIdle /\ NormInit /\ StoreIdle /\ ParseIdle /\ PoolIdle

Spec == Init /\ [][RunNext]_vars

InitDaily == RunInit /\ PlanIdle /\ FilterIdle /\ HarvestIdle /\ OracleIdle /\ NormInit /\ StoreIdle /\ ParseIdle /\ PoolIdle

\* the scheduler starts the next day's run whenever no run is in progress,
\* and a run in progress goes on until it returns or the process stops
SpecDaily == InitDaily /\ [][DailyNext]_vars /\ WF_vars(DailyNext)

InitOracle == OracleInit /\ PlanIdle /\ FilterIdle /\ HarvestIdle /\ RunInit /\ NormInit /\ StoreIdle /\ ParseIdle /\ PoolIdle

SpecOracle == InitOracle /\ [][OracleNext]_vars

InitNormalize ==
    /\ NormInit
    /\ PlanIdle /\ FilterIdle /\ HarvestIdle /\ RunInit /\ OracleIdle /\ StoreIdle
    /\ ParseIdle
    /\ PoolIdle

SpecNormalize == InitNormalize /\ [][NormNext]_vars

(***************************************************************************)
(* Claims about the Writer/Consolidator (SpecStore)                        *)
(***************************************************************************)
\* the rows of every file the last consolidate_old_files call took as input
RECURSIVE RowsOfDays(_, _)
RowsOfDays(f, days) ==
    IF days = {} THEN <<>>
    ELSE LET d == CHOOSE x \in days : TRUE
         IN  f.daily[d] \o RowsOfDays(f, days \ {d})

ConsolidateInputs ==
    store_op.before.cons.rows
        \o RowsOfDays(store_op.before, EligibleDays(store_op.before, store_op.cutoff))

\* the last call was consolidate_old_files on a month with eligible daily
\* partitions and a consolidated file, and the storage wrote and deleted
\* what it was asked to
ConsolidatedOverExisting ==
    /\ store_op.op = "consolidate"
    /\ store_op.outcome = "ok"
    /\ store_op.unlink_fail = {}
    /\ store_op.before.cons.exists
    /\ EligibleDays(store_op.before, store_op.cutoff) # {}

\* C18: after consolidate runs on a month that has eligible daily partitions
\* and a pre-existing consolidated file, the consolidated file holds exactly
\* one row per distinct business key found in all the inputs, and no
\* consumed daily file exists any more.
C18_ConsolidatedHoldsEveryKeyOnce ==
    ConsolidatedOverExisting =>
        LET cols == safe_columns \cap Columns(ConsolidateInputs)
            keys == {KeyOf(ConsolidateInputs[i], cols) : i \in 1..Len(ConsolidateInputs)}
            rows == files.cons.rows
        IN  /\ files.cons.exists
            /\ cols # {} =>
                  /\ \A k \in keys :
                        Cardinality({i \in 1..Len(rows) : KeyOf(rows[i], cols) = k}) = 1
                  /\ Len(rows) = Cardinality(keys)
            /\ \A d \in EligibleDays(store_op.before, store_op.cutoff) :
                  d \notin DOMAIN files.daily

\* C19: save_to_parquet for a date that already has a partition overwrites
\* it: after a call that returns, the partition of the date holds exactly
\* the records of that call, for every record list including the empty one.
C19_SaveOverwritesPartition ==
    (/\ store_op.op = "save"
     /\ store_op.outcome = "ok"
     /\ store_op.day \in DOMAIN store_op.before.daily)
        => /\ store_op.day \in DOMAIN files.daily
           /\ files.daily[store_op.day] = DataFrame(store_op.data, store_op.day)

\* some row of the consolidated file has the business key of row
InConsolidated(row) ==
    \E j \in 1..Len(files.cons.rows) :
        KeyOf(files.cons.rows[j], safe_columns) = KeyOf(row, safe_columns)

\* C30: for a month with at least one daily partition older than the
\* threshold, consolidate reads all the daily partitions of the month, those
\* newer than the threshold included, and the existing consolidated file:
\* when every read and the write succeed, the business key of every row of
\* every one of these files is in the consolidated file written.
C30_ConsolidateReadsWholeMonth ==
    (/\ store_op.op = "consolidate"
     /\ store_op.outcome = "ok"
     /\ store_op.read_fail = {}
     /\ EligibleDays(store_op.before, store_op.cutoff) # {})
        => /\ \A d \in DOMAIN store_op.before.daily :
                 \A i \in 1..Len(store_op.before.daily[d]) :
                     InConsolidated(store_op.before.daily[d][i])
           /\ \A i \in 1..Len(store_op.before.cons.rows) :
                 InConsolidated(store_op.before.cons.rows[i])

\* the rows the last consolidate_old_files call has read, in the order read:
\* the existing consolidated file first, then the daily files in the order
\* of daily_files
RECURSIVE DailyRowsRead(_)
DailyRowsRead(daily_files) ==
    IF daily_files = <<>> THEN <<>>
    ELSE (IF Head(daily_files) \in store_op.read_fail THEN <<>>
          ELSE store_op.before.daily[Head(daily_files)])
         \o DailyRowsRead(Tail(daily_files))

ExistingRowsRead ==
    IF store_op.before.cons.exists /\ ConsFile \notin store_op.read_fail
    THEN store_op.before.cons.rows ELSE <<>>

RowsRead == ExistingRowsRead \o DailyRowsRead(store_op.daily_files)

\* C31: consolidation deduplicates with keep-last semantics.  Of the rows
\* read that share a business key, exactly the one read last is in the
\* consolidated file written, the existing consolidated file being read
\* first and the daily partitions after it.
C31_KeepLastRow ==
    (/\ store_op.op = "consolidate"
     /\ store_op.outcome = "ok"
     /\ safe_columns \cap Columns(RowsRead) # {})
        => LET cols == safe_columns \cap Columns(RowsRead)
               rows == files.cons.rows
           IN  \A i \in 1..Len(RowsRead) :
                  LET k == KeyOf(RowsRead[i], cols)
                      same == {j \in 1..Len(RowsRead) : KeyOf(RowsRead[j], cols) = k}
                      last == CHOOSE j \in same : \A x \in same : x <= j
                      kept == {j \in 1..Len(rows) : KeyOf(rows[j], cols) = k}
                  IN  /\ Cardinality(kept) = 1
                      /\ \A j \in kept : rows[j] = RowsRead[last]

\* a daily partition's row has replaced the row of the same key that the
\* existing consolidated file held
C31_Witness ==
    /\ store_op.op = "consolidate"
    /\ store_op.outcome = "ok"
    /\ \E i \in 1..Len(ExistingRowsRead), d \in DOMAIN store_op.before.daily :
          /\ d \notin store_op.read_fail
          /\ \E n \in 1..Len(store_op.daily_files) : store_op.daily_files[n] = d
          /\ \E j \in 1..Len(store_op.before.daily[d]) :
                LET old == ExistingRowsRead[i]
                    new == store_op.before.daily[d][j]
                IN  /\ KeyOf(old, safe_columns) = KeyOf(new, safe_columns)
                    /\ old # new
                    /\ \E x \in 1..Len(files.cons.rows) : files.cons.rows[x] = new
                    /\ \A x \in 1..Len(files.cons.rows) : files.cons.rows[x] # old

\* C36: consolidate never destroys rows it did not carry over.  A daily
\* partition is gone after the call, and the existing consolidated file has
\* been replaced, only if its read succeeded and its rows went into the new
\* consolidated file; an input whose read failed is left as it was.
C36_OnlyReadInputsAreDestroyed ==
    store_op.op = "consolidate" =>
        /\ \A d \in DOMAIN store_op.before.daily :
              d \notin DOMAIN files.daily =>
                  /\ d \notin store_op.read_fail
                  /\ \A i \in 1..Len(store_op.before.daily[d]) :
                        InConsolidated(store_op.before.daily[d][i])
        /\ (store_op.before.cons.exists /\ files.cons # store_op.before.cons) =>
              /\ ConsFile \notin store_op.read_fail
              /\ \A i \in 1..Len(store_op.before.cons.rows) :
                    InConsolidated(store_op.before.cons.rows[i])

InitStore ==
    /\ StoreInit
    /\ PlanIdle /\ FilterIdle /\ HarvestIdle /\ RunInit /\ OracleIdle /\ NormInit
    /\ ParseIdle
    /\ PoolIdle

SpecStore == InitStore /\ [][StoreNext]_vars

(***************************************************************************)
(* Claims about _parse_llm_response (SpecParse)                            *)
(***************************************************************************)
LineTag(raw) == IF Strip(raw) = <<>> THEN "" ELSE Head(Strip(raw))

\* the line starts with none of the tags
UnknownLine(raw) ==
    LineTag(raw) \notin {"DECISAO:", "DECISÃO:", "CATEGORIA:", "CONFIANCA:",
                         "CONFIANÇA:", "JUSTIFICATIVA:"}

\* a DECISAO line whose value, upper-cased, is APROVAR or REJEITAR
ValidDecisionLine(raw) ==
    /\ LineTag(raw) \in {"DECISAO:", "DECISÃO:"}
    /\ \E i \in 1..Len(raw) : UpperToken(raw[i]) \in {"APROVAR", "REJEITAR"}
    /\ \A i \in 1..Len(raw) :
          raw[i] \in {"DECISAO:", "DECISÃO:", " "}
              \/ UpperToken(raw[i]) \in {"APROVAR", "REJEITAR"}
    /\ Cardinality({i \in 1..Len(raw) : UpperToken(raw[i]) \in {"APROVAR", "REJEITAR"}}) = 1

\* a CONFIANCA line whose value is not a number
MalformedConfidenceLine(raw) ==
    /\ LineTag(raw) \in {"CONFIANCA:", "CONFIANÇA:"}
    /\ \/ Cardinality({i \in 1..Len(raw) : raw[i] \in DOMAIN IntValues}) # 1
       \/ \E i \in 1..Len(raw) :
             raw[i] \notin DOMAIN IntValues \cup {"CONFIANCA:", "CONFIANÇA:", "%", " "}

MalformedLine(raw) ==
    \/ LineTag(raw) \in {"DECISAO:", "DECISÃO:"} /\ ~ValidDecisionLine(raw)
    \/ MalformedConfidenceLine(raw)

\* the answer without its unknown and malformed lines
WellFormedLines(text) ==
    SelectSeq(text, LAMBDA raw : ~UnknownLine(raw) /\ ~MalformedLine(raw))

\* the answer without its unknown lines and its DECISAO lines of no valid
\* value, every malformed CONFIANCA line standing for a confidence of 0
ToleratedLines(text) ==
    LET kept == SelectSeq(text, LAMBDA raw :
                    ~UnknownLine(raw)
                    /\ (LineTag(raw) \in {"DECISAO:", "DECISÃO:"} => ValidDecisionLine(raw)))
    IN  [i \in 1..Len(kept) |->
            IF MalformedConfidenceLine(kept[i]) THEN <<"CONFIANCA:", "0">> ELSE kept[i]]

NoValidDecision(text) == \A i \in 1..Len(text) : ~ValidDecisionLine(text[i])

\* C22 as stated: parsing ignores unknown or malformed lines (the result is
\* that of the answer without them), and when no line yields a valid
\* decision the parsed decision is REJEITAR.
C22_MalformedLinesIgnored ==
    parse.called =>
        /\ parse.data = Repair(ParseLines(DefaultResponseData, WellFormedLines(parse.text)))
        /\ NoValidDecision(parse.text) =>
              ParseLines(DefaultResponseData, parse.text).decisao = "REJEITAR"

\* C22 amended: parsing ignores unknown lines and DECISAO lines without a
\* valid value, a CONFIANCA line whose value is not a number sets the
\* confidence to 0, and when no line yields a valid decision the parsed
\* decision is REJEITAR.
C22_MalformedLinesTolerated ==
    parse.called =>
        /\ parse.data = Repair(ParseLines(DefaultResponseData, ToleratedLines(parse.text)))
        /\ NoValidDecision(parse.text) =>
              ParseLines(DefaultResponseData, parse.text).decisao = "REJEITAR"

\* an answer of a DECISAO line without a valid value and an unknown line has
\* been parsed, and the decision returned is REJEITAR
C22_Witness ==
    /\ parse.called
    /\ Len(parse.text) = 2
    /\ LineTag(parse.text[1]) = "DECISAO:" /\ MalformedLine(parse.text[1])
    /\ UnknownLine(parse.text[2]) /\ parse.text[2] # <<>>
    /\ parse.data = DefaultResponseData

\* the justification says that the item qualifies: it holds one of the two
\* phrases, and not in the negated form
IndicatesQualifies(justificativa) ==
    \E i \in 1..Len(justificativa) :
        LowerToken(justificativa[i]) \in {"se enquadra", "materiais educacionais"}

\* C23: the parsed decision is flipped to APROVAR with confidence 85 exactly
\* when the parsed decision is REJEITAR, the parsed confidence is 0 and the
\* justification indicates that the item qualifies; in every other case the
\* decision and the confidence are returned as parsed.
C23_RepairOnlyWhenJustificationQualifies ==
    parse.called =>
        LET parsed == ParseLines(DefaultResponseData, parse.text)
        IN  IF /\ parsed.decisao = "REJEITAR"
               /\ parsed.confianca = 0
               /\ IndicatesQualifies(parsed.justificativa)
            THEN parse.data = [parsed EXCEPT !.decisao = "APROVAR", !.confianca = 85]
            ELSE parse.data = parsed

\* C32: every parsed oracle response has a confidence within 0..100,
\* whatever number the CONFIANCA line of the answer holds.
C32_ConfidenceWithinRange ==
    parse.called => parse.data.confianca \in 0..100

InitParse ==
    /\ ParseInit
    /\ PlanIdle /\ FilterIdle /\ HarvestIdle /\ RunInit /\ OracleIdle /\ NormInit
    /\ StoreIdle
    /\ PoolIdle

SpecParse == InitParse /\ [][ParseResponse]_vars


(***************************************************************************)
(* Claims about the worker pool (SpecPool)                                 *)
(***************************************************************************)
\* C29: during extract_period_data at most max_workers page requests are in
\* flight at any time, and every request in flight is for a page of the
\* category being fetched: when a category starts, the pool of the one
\* before has no request left.
C29_PoolBoundedAndDrained ==
    /\ Cardinality(pool.inflight) <= pool.max_workers
    /\ \A r \in pool.inflight : r[1] = pool.modalidade
    /\ pool.pc \in {"get_total_pages", "sleep", "done"} => pool.inflight = {}

\* in the second category the pool is full: a page waits in the queue while
\* max_workers requests are in flight
C29_Witness ==
    /\ pool.modalidade = 2
    /\ pool.pc = "as_completed"
    /\ Cardinality(pool.inflight) = pool.max_workers
    /\ pool.queued # <<>>

InitPool ==
    /\ PoolInit
    /\ PlanIdle /\ FilterIdle /\ HarvestIdle /\ RunInit /\ OracleIdle /\ NormInit
    /\ StoreIdle /\ ParseIdle

SpecPool == InitPool /\ [][PoolNext]_vars

====
